---------------------------- MODULE Spec2Model ----------------------------
(***************************************************************************)
(* Signal-normalisation and statistical-testing pipeline of the            *)
(* steel-flow-analysis repository (src/utils/helpers.py,                   *)
(* src/analysis/normalization.py, src/analysis/composite.py,               *)
(* src/data/loader.py).                                                    *)
(*                                                                         *)
(* The pipeline is a library of functions over pandas Series/DataFrames.   *)
(* A state of the model is one call: the arguments the caller holds, the   *)
(* function called and the value it returned.  Every function is one       *)
(* action; the initial states draw its arguments from bounded sets.        *)
(*                                                                         *)
(* Numbers.  A float is modelled as an extended rational <<n, d>> in       *)
(* lowest terms with d >= 0:  d > 0 is the finite value n/d, <<0, 0>> is   *)
(* NaN (pandas' null), <<1, 0>> and <<-1, 0>> are +inf and -inf.  The      *)
(* arithmetic is IEEE arithmetic without rounding: x/0 is an infinity for  *)
(* x # 0, 0/0 is NaN, NaN propagates.  Rounding error is not modelled.     *)
(***************************************************************************)
EXTENDS Integers, Sequences, FiniteSets, TLC

VARIABLES call, args, result

vars == <<call, args, result>>

-----------------------------------------------------------------------------
(* Extended rationals *)

Abs(n) == IF n < 0 THEN -n ELSE n

Sign(n) == IF n < 0 THEN -1 ELSE IF n > 0 THEN 1 ELSE 0

Min(a, b) == IF a <= b THEN a ELSE b

Max(a, b) == IF a >= b THEN a ELSE b

RECURSIVE GCD(_, _)
GCD(a, b) == IF b = 0 THEN a ELSE GCD(b, a % b)

\* n/d in lowest terms, d >= 0, g the common divisor of n and d; a zero
\* denominator leaves only the sign of n
NormOver(n, d, g) == <<(Sign(d) * n) \div g, (Sign(d) * d) \div g>>

Norm(n, d) ==
    IF d = 0 THEN <<Sign(n), 0>>
    ELSE NormOver(n, d, GCD(Abs(n), Abs(d)))

NaN == <<0, 0>>

PosInf == <<1, 0>>

NegInf == <<-1, 0>>

Num(i) == <<i, 1>>

IsNull(x) == x = NaN

NotNull(x) == x # NaN

IsInf(x) == x[2] = 0 /\ x[1] # 0

IsFinite(x) == x[2] # 0

\* a + b for finite a and b, g the common divisor of the denominators
AddOver(a, b, g) ==
    Norm(a[1] * (b[2] \div g) + b[1] * (a[2] \div g), (a[2] \div g) * b[2])

Add(a, b) ==
    IF IsNull(a) \/ IsNull(b) THEN NaN
    ELSE IF IsInf(a) /\ IsInf(b) THEN (IF a = b THEN a ELSE NaN)
    ELSE AddOver(a, b, GCD(a[2], b[2]))

Neg(a) == <<-a[1], a[2]>>

Sub(a, b) == Add(a, Neg(b))

\* a * b for finite a and b: the common factors g1 of a's numerator and
\* b's denominator and g2 of b's numerator and a's denominator are
\* cancelled before the products are taken
MulOver(a, b, g1, g2) ==
    Norm((a[1] \div g1) * (b[1] \div g2), (a[2] \div g2) * (b[2] \div g1))

Mul(a, b) ==
    IF a[2] = 0 \/ b[2] = 0 THEN <<Sign(a[1]) * Sign(b[1]), 0>>
    ELSE MulOver(a, b, GCD(Abs(a[1]), b[2]), GCD(Abs(b[1]), a[2]))

\* float division: never raises; x/0 is +-inf, 0/0 and inf/inf are NaN
Div(a, b) ==
    IF IsNull(a) \/ IsNull(b) THEN NaN
    ELSE IF IsInf(a) /\ IsInf(b) THEN NaN
    ELSE IF b[2] = 0 THEN Num(0)
    ELSE IF a[2] = 0 THEN <<a[1] * (IF b[1] < 0 THEN -1 ELSE 1), 0>>
    ELSE IF b[1] = 0 THEN <<Sign(a[1]), 0>>
    ELSE Mul(a, <<Sign(b[1]) * b[2], Abs(b[1])>>)

\* a < b for finite a and b, g the common divisor of the denominators
LessOver(a, b, g) == a[1] * (b[2] \div g) < b[1] * (a[2] \div g)

\* a < b on non-null values (any comparison with NaN is false)
Less(a, b) ==
    /\ NotNull(a) /\ NotNull(b) /\ a # b
    /\ IF IsFinite(a) /\ IsFinite(b)
       THEN LessOver(a, b, GCD(a[2], b[2]))
       ELSE IF IsInf(a) THEN a = NegInf
       ELSE b = PosInf

LessEq(a, b) == NotNull(a) /\ NotNull(b) /\ (a = b \/ Less(a, b))

-----------------------------------------------------------------------------
(* Series: a sequence of extended rationals, positions 1..Len *)

\* all sequences over S of length 0..n
SeqUpTo(S, n) == UNION {[1..k -> S] : k \in 0..n}

\* pandas Series.ffill(): a null takes the last non-null value before it
RECURSIVE LastValid(_, _)
LastValid(s, i) ==
    IF i = 0 THEN NaN
    ELSE IF NotNull(s[i]) THEN s[i]
    ELSE LastValid(s, i - 1)

Ffill(s) == [i \in 1..Len(s) |-> LastValid(s, i)]

\* pandas Series.shift(k): position i takes the value of position i - k
Shift(s, k) ==
    [i \in 1..Len(s) |-> IF i - k \in 1..Len(s) THEN s[i - k] ELSE NaN]

\* pandas Series.pct_change(periods): s[i] / s[i - periods] - 1.  Before
\* pandas 3 the default fill_method pads nulls first (pad = TRUE); from
\* pandas 3 on it does not (pad = FALSE).  Both builds are modelled.
PctChange(s, periods, pad) ==
    LET f == IF pad THEN Ffill(s) ELSE s
    IN  [i \in 1..Len(s) |->
            IF i - periods \in 1..Len(s)
            THEN Sub(Div(f[i], f[i - periods]), Num(1))
            ELSE NaN]

-----------------------------------------------------------------------------
(* pandas rolling windows: series.rolling(window, min_periods) *)

\* the positions of the trailing window that ends at (and includes) i
WindowAt(i, window) == Max(1, i - window + 1)..i

\* rolling aggregations skip nulls and read an infinity as a null
Valid(x) == IsFinite(x)

ValidIn(s, idx) == {j \in idx : Valid(s[j])}

\* the earlier half of a set of positions
EarlierHalf(idx) ==
    {k \in idx : 2 * Cardinality({j \in idx : j <= k}) <= Cardinality(idx)}

\* the sum of s over the positions idx, summed by halves
RECURSIVE SumOver(_, _)
SumOver(s, idx) ==
    IF idx = {} THEN Num(0)
    ELSE IF Cardinality(idx) = 1
    THEN s[CHOOSE k \in idx : TRUE]
    ELSE Add(SumOver(s, EarlierHalf(idx)), SumOver(s, idx \ EarlierHalf(idx)))

MeanOver(s, idx) == Div(SumOver(s, idx), Num(Cardinality(idx)))

\* the square of the deviation of x from m
SquaredDeviation(x, m) == Mul(Sub(x, m), Sub(x, m))

\* sum of squared deviations from the mean
RECURSIVE SsqOver(_, _, _)
SsqOver(s, idx, m) ==
    IF idx = {} THEN Num(0)
    ELSE IF Cardinality(idx) = 1
    THEN SquaredDeviation(s[CHOOSE k \in idx : TRUE], m)
    ELSE Add(SsqOver(s, EarlierHalf(idx), m),
             SsqOver(s, idx \ EarlierHalf(idx), m))

\* rolling(window, min_periods).mean(): null below min_periods observations
RollingMean(s, window, minp) ==
    [i \in 1..Len(s) |->
        LET obs == ValidIn(s, WindowAt(i, window))
        IN  IF Cardinality(obs) >= minp /\ obs # {}
            THEN MeanOver(s, obs)
            ELSE NaN]

\* rolling(window, min_periods).var(): the sample variance (ddof = 1),
\* null below min_periods observations and below two observations
RollingVar(s, window, minp) ==
    [i \in 1..Len(s) |->
        LET obs == ValidIn(s, WindowAt(i, window))
        IN  IF Cardinality(obs) >= minp /\ Cardinality(obs) > 1
            THEN Div(SsqOver(s, obs, MeanOver(s, obs)),
                     Num(Cardinality(obs) - 1))
            ELSE NaN]

-----------------------------------------------------------------------------
(* Before a call: the caller holds the arguments, nothing has been returned *)

Idle == call = "idle" /\ result = <<>>

-----------------------------------------------------------------------------
(* ForwardReturnEngine: utils/helpers.py calculate_forward_returns *)

MaxPriceLen == 4

MaxPrice == 3

MaxHorizon == 2

PriceValues == {NaN} \cup {Num(v) : v \in 1..MaxPrice}

\* the mutated column: the backward return, pct_change(h) without the shift
ForwardReturnNoShift(prices, h, pad) == PctChange(prices, h, pad)

\* one column of the frame: prices.pct_change(h).shift(-h)
ForwardReturn(prices, h, pad) == Shift(PctChange(prices, h, pad), -h)

calculate_forward_returns(prices, horizons, pad) ==
    [h \in horizons |-> ForwardReturn(prices, h, pad)]

InitForward ==
    /\ Idle
    /\ args \in [prices : SeqUpTo(PriceValues, MaxPriceLen),
                 horizons : SUBSET (1..MaxHorizon),
                 pad : BOOLEAN]

CalculateForwardReturns ==
    /\ call = "idle"
    /\ call' = "calculate_forward_returns"
    /\ result' = calculate_forward_returns(args.prices, args.horizons, args.pad)
    /\ UNCHANGED args

NextForward == CalculateForwardReturns

SpecForward == InitForward /\ [][NextForward]_vars

\* C1: for every price series and horizon h >= 1 the forward return stored
\* at position t is prices[t+h]/prices[t] - 1 when both prices are present,
\* it is null at each of the last h positions, and elsewhere it is null
\* only if the price at t or at t+h is missing.
C1_ForwardReturnConsistency ==
    call = "calculate_forward_returns" =>
        \A h \in args.horizons :
            LET p == args.prices
                n == Len(p)
                r == result[h]
            IN  /\ Len(r) = n
                /\ \A t \in 1..n :
                     /\ t + h > n => IsNull(r[t])
                     /\ (t + h <= n /\ NotNull(p[t]) /\ NotNull(p[t + h]))
                            => r[t] = Sub(Div(p[t + h], p[t]), Num(1))
                     /\ (t + h <= n /\ IsNull(r[t]))
                            => (IsNull(p[t]) \/ IsNull(p[t + h]))

\* a series long enough to hold a forward return and h trailing nulls,
\* with a price missing in the middle
C1_Witness ==
    /\ call = "calculate_forward_returns"
    /\ 2 \in args.horizons
    /\ Len(args.prices) = 4
    /\ IsNull(args.prices[2])
    /\ result[2][1] = Num(1)
    /\ IsNull(result[2][3]) /\ IsNull(result[2][4])

-----------------------------------------------------------------------------
(* MergedPanel: data/loader.py merge_all_data, for one ticker *)

MaxDate == 3

MA_WINDOW_REGIME == 200

Dates == 1..MaxDate

\* A loaded sheet: whether the ticker has one, and the dates of its rows
\* (unique, sorted by the loader).  Every cell of a row holds a number.
Sheets == [present : BOOLEAN, dates : SUBSET Dates]

ForeignColumns == {"foreign_net_buy_vol", "foreign_net_buy_val", "close"}

ValuationColumns == {"pe", "pb", "pcfs"}

SelfColumns ==
    {"self_net_buy_vol", "self_net_buy_val", "self_buy_val", "self_sell_val"}

IndexColumns == {"vnindex_close"}

\* the cell a source sheet holds for a date (prices differ from day to day)
Cell(col, d) ==
    IF col = "close" THEN Num(10 + d * d)
    ELSE IF col = "vnindex_close" THEN Num(100 + d)
    ELSE Num(d)

\* the sorted sequence of a set of dates
RECURSIVE SortedDates(_)
SortedDates(ds) ==
    IF ds = {} THEN <<>>
    ELSE LET m == CHOOSE d \in ds : \A e \in ds : d <= e
         IN  <<m>> \o SortedDates(ds \ {m})

\* a frame: its dates in row order and its columns
Frame(ds, columns) ==
    [dates |-> SortedDates(ds),
     cols  |-> [c \in columns |->
                   [i \in 1..Cardinality(ds) |-> Cell(c, SortedDates(ds)[i])]]]

\* df.merge(other, on=DATE, how='outer') followed by sort_values(DATE):
\* the union of the dates; a column is null on the dates its frame lacks
OuterMerge(df, other) ==
    LET ds   == {df.dates[i] : i \in 1..Len(df.dates)}
                    \cup {other.dates[i] : i \in 1..Len(other.dates)}
        rows == SortedDates(ds)
        At(f, c, d) ==
            IF \E i \in 1..Len(f.dates) : f.dates[i] = d
            THEN f.cols[c][CHOOSE i \in 1..Len(f.dates) : f.dates[i] = d]
            ELSE NaN
    IN  [dates |-> rows,
         cols  |-> [c \in (DOMAIN df.cols) \cup (DOMAIN other.cols) |->
                       [i \in 1..Len(rows) |->
                           IF c \in DOMAIN df.cols THEN At(df, c, rows[i])
                           ELSE At(other, c, rows[i])]]]

\* the columns loader.py forward-fills after the merge
price_cols == {"close", "vnindex_close", "pe", "pb"}

FfillColumns(df, columns) ==
    [df EXCEPT !.cols =
        [c \in DOMAIN df.cols |->
            IF c \in columns THEN Ffill(df.cols[c]) ELSE df.cols[c]]]

WithColumn(df, c, s) ==
    [df EXCEPT !.cols =
        [k \in (DOMAIN df.cols) \cup {c} |-> IF k = c THEN s ELSE df.cols[k]]]

\* (a > b).astype(int): a comparison with a null is false
GreaterInt(a, b) ==
    [i \in 1..Len(a) |-> IF Less(b[i], a[i]) THEN Num(1) ELSE Num(0)]

SeriesSub(a, b) == [i \in 1..Len(a) |-> Sub(a[i], b[i])]

\* the merged panel of a ticker that has a foreign-trading sheet
MergeTicker(foreign, valuation, self, vnindex) ==
    LET f0 == Frame(foreign.dates, ForeignColumns)
        f1 == IF valuation.present
              THEN OuterMerge(f0, Frame(valuation.dates, ValuationColumns))
              ELSE f0
        f2 == IF self.present
              THEN OuterMerge(f1, Frame(self.dates, SelfColumns))
              ELSE f1
        f3 == OuterMerge(f2, Frame(vnindex.dates, IndexColumns))
        f4 == FfillColumns(f3, price_cols)
        \* both columns were just padded: pct_change's own padding is idle
        ret == PctChange(f4.cols["close"], 1, FALSE)
        mkt == PctChange(f4.cols["vnindex_close"], 1, FALSE)
        ma  == RollingMean(f4.cols["vnindex_close"], MA_WINDOW_REGIME, 1)
        f5 == WithColumn(f4, "return", ret)
        f6 == WithColumn(f5, "market_return", mkt)
        f7 == WithColumn(f6, "excess_return", SeriesSub(ret, mkt))
        f8 == WithColumn(f7, "ma200", ma)
    IN  WithColumn(f8, "bull_market", GreaterInt(f4.cols["vnindex_close"], ma))

\* merge_all_data: a ticker without a foreign-trading sheet is skipped
merge_all_data(foreign, valuation, self, vnindex) ==
    IF foreign.present
    THEN [merged |-> TRUE,
          df |-> MergeTicker(foreign, valuation, self, vnindex)]
    ELSE [merged |-> FALSE, df |-> <<>>]

\* the sheets of one ticker; the VN-Index file always loads
InitMerge ==
    /\ Idle
    /\ args \in [foreign : Sheets, valuation : Sheets, self : Sheets,
                 vnindex : {sh \in Sheets : sh.present}]
    /\ args.foreign.present \/ args.foreign.dates = {}
    /\ args.valuation.present \/ args.valuation.dates = {}
    /\ args.self.present \/ args.self.dates = {}

MergeAllData ==
    /\ call = "idle"
    /\ call' = "merge_all_data"
    /\ result' = merge_all_data(args.foreign, args.valuation, args.self,
                              args.vnindex)
    /\ UNCHANGED args

NextMerge == MergeAllData

SpecMerge == InitMerge /\ [][NextMerge]_vars

\* the dates on which the sheet a column comes from has a row
SourceDates(c) ==
    IF c \in ForeignColumns THEN args.foreign.dates
    ELSE IF c \in ValuationColumns THEN args.valuation.dates
    ELSE IF c \in SelfColumns THEN args.self.dates
    ELSE args.vnindex.dates

FlowColumns ==
    {"foreign_net_buy_vol", "foreign_net_buy_val"} \cup SelfColumns

\* C3: after the outer merge only close and vnindex_close are forward
\* filled; every trading-flow column and every valuation column (pe, pb,
\* pcfs) is null at each date where its source sheet has no row.
C3_OnlyPricesForwardFilled ==
    (call = "merge_all_data" /\ result.merged) =>
        LET df == result.df
        IN  \A c \in (DOMAIN df.cols) \cap (FlowColumns \cup ValuationColumns) :
                \A i \in 1..Len(df.dates) :
                    df.dates[i] \notin SourceDates(c) => IsNull(df.cols[c][i])

\* what the code does keep: the trading-flow columns and pcfs stay null
\* where their sheet has no row, while close, vnindex_close, pe and pb
\* carry the last known value forward
C3_FlowColumnsNeverFilled ==
    (call = "merge_all_data" /\ result.merged) =>
        LET df == result.df
        IN  /\ \A c \in (DOMAIN df.cols) \cap (FlowColumns \cup {"pcfs"}) :
                \A i \in 1..Len(df.dates) :
                    df.dates[i] \notin SourceDates(c) => IsNull(df.cols[c][i])
            /\ \A c \in (DOMAIN df.cols) \cap price_cols :
                \A i \in 1..Len(df.dates) :
                    IsNull(df.cols[c][i]) <=>
                        \A j \in 1..i : df.dates[j] \notin SourceDates(c)

-----------------------------------------------------------------------------
(* QuantileBinner: utils/helpers.py create_quintiles, create_terciles,     *)
(* create_deciles.  A label is the number of its group (1 is 'Q1', 'T1' or *)
(* 'D1'); 0 is the null category.                                          *)

MaxBinLen == 5

ScoreValues == {NaN, Num(1), Num(2), Num(4)}

DistinctValues == {Num(1), Num(2), Num(4), Num(7), Num(8), Num(9)}

\* series.dropna(): the positions that hold a value
CleanIdx(s) == {i \in 1..Len(s) : NotNull(s[i])}

\* the values at positions idx in ascending order
RECURSIVE SortedValues(_, _)
SortedValues(s, idx) ==
    IF idx = {} THEN <<>>
    ELSE LET m == CHOOSE i \in idx : \A j \in idx : LessEq(s[i], s[j])
         IN  <<s[m]>> \o SortedValues(s, idx \ {m})

\* Series.quantile(k/q), linear interpolation between closest ranks
Quantile(sorted, k, q) ==
    LET n  == Len(sorted)
        lo == (k * (n - 1)) \div q
        r  == (k * (n - 1)) % q
        a  == sorted[lo + 1]
        b  == sorted[Min(lo + 2, n)]
    IN  Add(a, Mul(Norm(r, q), Sub(b, a)))

\* the mutated edges: equal-width edges between the smallest and the
\* largest value (pd.cut in place of pd.qcut)
EqualWidthEdges(s, q) ==
    LET sorted == SortedValues(s, CleanIdx(s))
        mn == sorted[1]
        mx == sorted[Len(sorted)]
    IN  [k \in 1..(q + 1) |-> Add(mn, Mul(Norm(k - 1, q), Sub(mx, mn)))]

\* qcut's bin edges: the quantiles 0, 1/q, ..., 1 of the clean values
QuantileEdges(s, q) ==
    LET sorted == SortedValues(s, CleanIdx(s))
    IN  [k \in 1..(q + 1) |-> Quantile(sorted, k - 1, q)]

HasDuplicates(bins) ==
    \E j, k \in 1..Len(bins) : j # k /\ bins[j] = bins[k]

\* bins.searchsorted(x, side='left'): the number of edges below x
SearchSortedLeft(bins, x) ==
    Cardinality({k \in 1..Len(bins) : Less(bins[k], x)})

\* the mutated lookup: include_lowest is not applied
BinOfNoLowest(bins, x) ==
    LET id == SearchSortedLeft(bins, x)
    IN  IF id \in 1..(Len(bins) - 1) THEN id ELSE 0

\* _bins_to_cuts(right=True, include_lowest=True): the bin of x, 0 when x
\* lies outside the edges
BinOf(bins, x) ==
    LET id == IF x = bins[1] THEN 1 ELSE SearchSortedLeft(bins, x)
    IN  IF id \in 1..(Len(bins) - 1) THEN id ELSE 0

\* the mutated rank: method='first', ties ranked in order of appearance
RankPctFirst(s, i) ==
    LET idx == CleanIdx(s)
        before == Cardinality({j \in idx : Less(s[j], s[i])
                                  \/ (s[j] = s[i] /\ j < i)})
    IN  Norm(before + 1, Cardinality(idx))

\* series_clean.rank(pct=True): the average rank of the value at i among
\* the clean values, divided by their number
RankPct(s, i) ==
    LET idx == CleanIdx(s)
        lt  == Cardinality({j \in idx : Less(s[j], s[i])})
        le  == Cardinality({j \in idx : LessEq(s[j], s[i])})
    IN  Norm(lt + le + 1, 2 * Cardinality(idx))

\* the mutated edges: q bins of equal width over [0, 1], so that the
\* group is ceil(percentile * q)
UnitEdges(pcts, q) == [k \in 1..(q + 1) |-> Norm(k - 1, q)]

\* pd.cut(percentiles, bins=q): q bins of equal width between the smallest
\* and the largest percentile; the lowest edge is moved down by 0.1% of
\* the range, and a single percentile p is cut over [0.999 p, 1.001 p]
CutEdges(pcts, q) ==
    LET mn == CHOOSE x \in pcts : \A y \in pcts : LessEq(x, y)
        mx == CHOOSE x \in pcts : \A y \in pcts : LessEq(y, x)
        lo == IF mn = mx THEN Sub(mn, Mul(Norm(1, 1000), mn)) ELSE mn
        hi == IF mn = mx THEN Add(mx, Mul(Norm(1, 1000), mx)) ELSE mx
        adj == IF mn = mx THEN Num(0) ELSE Mul(Sub(mx, mn), Norm(1, 1000))
    IN  [k \in 1..(q + 1) |->
            IF k = 1 THEN Sub(lo, adj)
            ELSE Add(lo, Mul(Norm(k - 1, q), Sub(hi, lo)))]

\* pd.qcut(series_clean, q, labels, duplicates='drop'): colliding edges
\* are dropped and the q labels then no longer fit: ValueError
Qcut(s, q) ==
    LET bins == QuantileEdges(s, q)
    IN  IF HasDuplicates(bins)
        THEN [error |-> "ValueError", labels |-> <<>>]
        ELSE [error |-> "none",
              labels |-> [i \in 1..Len(s) |->
                             IF i \in CleanIdx(s) THEN BinOf(bins, s[i]) ELSE 0]]

\* the except branch: rank(pct=True) cut into q bins
RankCut(s, q) ==
    LET pcts == {RankPct(s, i) : i \in CleanIdx(s)}
        bins == CutEdges(pcts, q)
    IN  [i \in 1..Len(s) |->
            IF i \in CleanIdx(s) THEN BinOf(bins, RankPct(s, i)) ELSE 0]

\* the body shared by the three binners; the result is reindexed on the
\* original index, so a dropped (null) position has the null category
Bin(s, q) ==
    IF CleanIdx(s) = {}
    THEN [raised |-> FALSE, labels |-> [i \in 1..Len(s) |-> 0]]
    ELSE LET r == Qcut(s, q)
         IN  IF r.error \in {"ValueError", "TypeError"}
             THEN [raised |-> FALSE, labels |-> RankCut(s, q)]
             ELSE [raised |-> r.error # "none", labels |-> r.labels]

create_quintiles(series) == Bin(series, 5)

create_terciles(series) == Bin(series, 3)

create_deciles(series) == Bin(series, 10)

\* series of scores with ties and nulls, and series of distinct scores
BinInputs ==
    SeqUpTo(ScoreValues, MaxBinLen)
        \cup {s \in SeqUpTo(DistinctValues, MaxBinLen) :
                 \A j, k \in 1..Len(s) : j # k => s[j] # s[k]}

InitBinner == Idle /\ args \in [series : BinInputs]

CreateQuintiles ==
    /\ call = "idle"
    /\ call' = "create_quintiles"
    /\ result' = create_quintiles(args.series)
    /\ UNCHANGED args

CreateTerciles ==
    /\ call = "idle"
    /\ call' = "create_terciles"
    /\ result' = create_terciles(args.series)
    /\ UNCHANGED args

CreateDeciles ==
    /\ call = "idle"
    /\ call' = "create_deciles"
    /\ result' = create_deciles(args.series)
    /\ UNCHANGED args

NextBinner == CreateQuintiles \/ CreateTerciles \/ CreateDeciles

SpecBinner == InitBinner /\ [][NextBinner]_vars

\* the number of groups of the binner that was called
n_groups ==
    IF call = "create_quintiles" THEN 5
    ELSE IF call = "create_terciles" THEN 3
    ELSE 10

BinnerCalled ==
    call \in {"create_quintiles", "create_terciles", "create_deciles"}

\* the number of observations the result puts in group g
GroupSize(g) == Cardinality({i \in 1..Len(result.labels) : result.labels[i] = g})

SizesDifferByAtMostOne ==
    \A g, h \in 1..n_groups : GroupSize(g) - GroupSize(h) <= 1

DistinctCount(s) == Cardinality({s[i] : i \in CleanIdx(s)})

NoTies(s) == \A i, j \in CleanIdx(s) : i # j => s[i] # s[j]

\* C4 as stated: whenever the non-null values contain at least n_groups
\* distinct values, the sizes of the groups differ by at most 1.
C4_EqualSizesGivenEnoughDistinct ==
    (BinnerCalled /\ DistinctCount(args.series) >= n_groups)
        => SizesDifferByAtMostOne

\* C4 as amended: whenever the non-null values are pairwise distinct, the
\* sizes of the groups differ by at most 1.
C4_EqualSizesWithoutTies ==
    (BinnerCalled /\ NoTies(args.series)) => SizesDifferByAtMostOne

\* five distinct scores cut into terciles of sizes 2, 1 and 2
C4_Witness ==
    /\ call = "create_terciles"
    /\ NoTies(args.series)
    /\ Cardinality(CleanIdx(args.series)) = 5
    /\ GroupSize(1) = 2 /\ GroupSize(2) = 1 /\ GroupSize(3) = 2

\* C5: the binner never raises, every non-null row gets exactly one of the
\* n_groups labels, every null row gets the null label, and the result is
\* on the original index (so an all-null input gives an all-null result).
C5_LabelsPartitionNonNull ==
    BinnerCalled =>
        /\ ~result.raised
        /\ Len(result.labels) = Len(args.series)
        /\ \A i \in 1..Len(args.series) :
              IF IsNull(args.series[i])
              THEN result.labels[i] = 0
              ELSE result.labels[i] \in 1..n_groups

\* a null row between labelled rows, the lowest value in the first group
C5_Witness ==
    /\ call = "create_quintiles"
    /\ Len(args.series) = 3
    /\ IsNull(args.series[2])
    /\ args.series[1] = Num(1) /\ args.series[3] = Num(4)
    /\ result.labels = <<1, 0, 5>>

Ceil(x) == (x[1] + x[2] - 1) \div x[2]

FallbackTaken(s, q) == CleanIdx(s) # {} /\ HasDuplicates(QuantileEdges(s, q))

\* C6 as stated: with fewer distinct values than n_groups the binner does
\* not raise and the group is ceil(percentile_rank * n_groups / 100).
C6_GroupIsCeilOfPercentile ==
    (BinnerCalled /\ DistinctCount(args.series) < n_groups) =>
        /\ ~result.raised
        /\ \A i \in CleanIdx(args.series) :
              result.labels[i] =
                  Ceil(Mul(RankPct(args.series, i), Num(n_groups)))

\* C6 as amended: with fewer distinct values than n_groups the binner does
\* not raise; when the quantile edges collide, the observation with rank
\* percentile p is put in the g-th of n_groups intervals of equal width w
\* between the smallest and the largest rank percentile of the input,
\* (g-1)*w <= p - pmin <= g*w, the smallest in group 1 and the largest in
\* group n_groups, and a single rank percentile in the middle group.
C6_GroupIsEqualWidthBucket ==
    BinnerCalled =>
        LET s    == args.series
            q    == n_groups
            pcts == {RankPct(s, i) : i \in CleanIdx(s)}
            pmin == CHOOSE x \in pcts : \A y \in pcts : LessEq(x, y)
            pmax == CHOOSE x \in pcts : \A y \in pcts : LessEq(y, x)
        IN  /\ DistinctCount(s) < q => ~result.raised
            /\ FallbackTaken(s, q) =>
                  /\ ~result.raised
                  /\ \A i \in CleanIdx(s) :
                        LET p == RankPct(s, i)
                            g == result.labels[i]
                            w == Div(Sub(pmax, pmin), Num(q))
                        IN  IF pmin = pmax
                            THEN g = (q + 1) \div 2
                            ELSE /\ g \in 1..q
                                 /\ LessEq(Mul(Num(g - 1), w), Sub(p, pmin))
                                 /\ LessEq(Sub(p, pmin), Mul(Num(g), w))
                                 /\ p = pmin => g = 1
                                 /\ p = pmax => g = q

\* colliding edges with two rank percentiles, and the bucket is not the
\* ceiling of the percentile
C6_Witness ==
    /\ call = "create_quintiles"
    /\ args.series = <<Num(1), Num(1), Num(1), Num(2)>>
    /\ FallbackTaken(args.series, 5)
    /\ result.labels = <<1, 1, 1, 5>>
    /\ Ceil(Mul(RankPct(args.series, 1), Num(5))) = 3

\* C7: labels ascend with the value on both paths: value(a) <= value(b)
\* implies group(a) <= group(b); equal values get the same label.
C7_LabelsMonotone ==
    BinnerCalled =>
        \A i, j \in CleanIdx(args.series) :
            LessEq(args.series[i], args.series[j])
                => result.labels[i] <= result.labels[j]

\* tied values on the fallback path, spread over more than one group
C7_Witness ==
    /\ call = "create_terciles"
    /\ FallbackTaken(args.series, 3)
    /\ \E i, j \in CleanIdx(args.series) : i # j /\ args.series[i] = args.series[j]
    /\ \E i, j \in CleanIdx(args.series) : result.labels[i] < result.labels[j]

-----------------------------------------------------------------------------
(* RollingStatistics: utils/helpers.py calculate_zscore and                *)
(* calculate_percentile; analysis/normalization.py normalize_by_adv        *)

MaxRollLen == 4

MaxWindow == 4

MaxAdvLen == 3

RollValues == {NaN, Num(1), Num(2), Num(3)}

NetBuyValues == {NaN, Num(-1), Num(0), Num(2)}

CloseValues == {NaN, Num(0), Num(2)}

\* the mutated floor: pandas' default, min_periods = window
MinPeriodsDefault(window) == window

\* min_periods=window//2
MinPeriods(window) == window \div 2

\* A z-score is sgn * sqrt(sq): the deviation from the mean divided by
\* the standard deviation, kept exact by its sign and its square.  sq is
\* NaN for a null z-score and +inf for an infinite one.
ZScoreOf(dev, var) ==
    IF IsNull(dev) \/ IsNull(var) THEN [sgn |-> 0, sq |-> NaN]
    ELSE [sgn |-> Sign(dev[1]), sq |-> Div(Mul(dev, dev), var)]

ZNull(z) == IsNull(z.sq)

ZInf(z) == IsInf(z.sq)

\* the mutated mean: the expanding mean of all observations so far
ExpandingMean(s, window, minp) ==
    [i \in 1..Len(s) |->
        LET obs == ValidIn(s, 1..i)
        IN  IF Cardinality(obs) >= minp /\ obs # {}
            THEN MeanOver(s, obs)
            ELSE NaN]

\* the mutated mean: the mean of the whole series, later rows included
WholeSeriesMean(s, window, minp) ==
    [i \in 1..Len(s) |-> MeanOver(s, ValidIn(s, 1..Len(s)))]

\* the rolling mean of calculate_zscore (helpers.py line 140)
ZscoreMean(s, window, minp) == RollingMean(s, window, minp)

\* (series - rolling_mean) / rolling_std
calculate_zscore(series, window) ==
    LET rolling_mean == ZscoreMean(series, window, MinPeriods(window))
        rolling_var  == RollingVar(series, window, MinPeriods(window))
    IN  [i \in 1..Len(series) |->
            ZScoreOf(Sub(series[i], rolling_mean[i]), rolling_var[i])]

\* scipy.stats.percentileofscore(a, score), kind='rank', where a are the
\* values of s at positions ref.  A null score gives a null.  A null in a
\* gives a null from scipy 1.9 on (propagate = TRUE); before, the null
\* counts in len(a) and compares false (propagate = FALSE).
PercentileOfScore(s, ref, score, propagate) ==
    LET n     == Cardinality(ref)
        left  == Cardinality({j \in ref : Less(s[j], score)})
        right == Cardinality({j \in ref : LessEq(s[j], score)})
        plus1 == IF left < right THEN 1 ELSE 0
    IN  IF IsNull(score) \/ n = 0 THEN NaN
        ELSE IF propagate /\ \E j \in ref : IsNull(s[j]) THEN NaN
        ELSE Norm((left + right + plus1) * 50, n)

\* the mutated reference set: the whole window x, the current value too
ReferenceWholeWindow(win, i) == win

\* x[:-1]: the window without its last position, the current one
Reference(win, i) == win \ {i}

\* percentile_rank(x) on the window x that ends at position i
percentile_rank(s, win, i, propagate) ==
    IF Cardinality(win) < 2 THEN NaN
    ELSE PercentileOfScore(s, Reference(win, i), s[i], propagate)

\* series.rolling(window, min_periods=window//2).apply(percentile_rank):
\* the function is applied where the window holds min_periods values
calculate_percentile(series, window, propagate) ==
    [i \in 1..Len(series) |->
        LET win == WindowAt(i, window)
        IN  IF Cardinality(ValidIn(series, win)) >= MinPeriods(window)
            THEN percentile_rank(series, win, i, propagate)
            ELSE NaN]

SeriesDiv(a, b) == [i \in 1..Len(a) |-> Div(a[i], b[i])]

\* the mutated absolute value: the signed volume
SeriesSigned(a) == a

\* volume.abs()
SeriesAbs(a) == [i \in 1..Len(a) |-> <<Abs(a[i][1]), a[i][2]>>]

\* volume = net_buy_value / close
adv_volume(net_buy_value, close) == SeriesDiv(net_buy_value, close)

\* avg_volume = volume.abs().rolling(window, min_periods=window//2).mean()
adv_avg_volume(net_buy_value, close, window) ==
    RollingMean(SeriesAbs(adv_volume(net_buy_value, close)), window,
                MinPeriods(window))

normalize_by_adv(net_buy_value, close, window) ==
    SeriesDiv(adv_volume(net_buy_value, close),
              adv_avg_volume(net_buy_value, close, window))

\* a series with a window, or a net-buy series with its closing prices
SeriesArgs ==
    [series : SeqUpTo(RollValues, MaxRollLen), window : 1..MaxWindow,
     propagate : BOOLEAN]

\* five sessions of net-buy values at a close of 10, window 3
AdvScenario ==
    [net_buy_value |-> <<Num(100), Num(-50), Num(200), Num(0), NaN>>,
     close         |-> [i \in 1..5 |-> Num(10)],
     window        |-> 3]

AdvArgs ==
    {a \in [net_buy_value : SeqUpTo(NetBuyValues, MaxAdvLen),
            close : SeqUpTo(CloseValues, MaxAdvLen),
            window : 1..MaxWindow] :
        Len(a.net_buy_value) = Len(a.close)}
        \cup {AdvScenario}

InitRolling == Idle /\ (args \in SeriesArgs \/ args \in AdvArgs)

CalculateZscore ==
    /\ call = "idle"
    /\ "series" \in DOMAIN args
    /\ call' = "calculate_zscore"
    /\ result' = calculate_zscore(args.series, args.window)
    /\ UNCHANGED args

CalculatePercentile ==
    /\ call = "idle"
    /\ "series" \in DOMAIN args
    /\ call' = "calculate_percentile"
    /\ result' = calculate_percentile(args.series, args.window, args.propagate)
    /\ UNCHANGED args

NormalizeByAdv ==
    /\ call = "idle"
    /\ "close" \in DOMAIN args
    /\ call' = "normalize_by_adv"
    /\ result' = normalize_by_adv(args.net_buy_value, args.close, args.window)
    /\ UNCHANGED args

NextRolling == CalculateZscore \/ CalculatePercentile \/ NormalizeByAdv

SpecRolling == InitRolling /\ [][NextRolling]_vars

\* the input series of the rolling computation that was called: the
\* series itself, or the absolute estimated volumes of normalize_by_adv
RollingInput ==
    IF "series" \in DOMAIN args THEN args.series
    ELSE SeriesAbs(adv_volume(args.net_buy_value, args.close))

\* the window of position i holds no null (and no infinite) input
WindowClean(i) ==
    \A j \in WindowAt(i, args.window) : Valid(RollingInput[j])

\* the window of position i holds `window` inputs, none of them null
WindowFull(i) == i >= args.window /\ WindowClean(i)

\* all inputs in the window of position i are equal: zero variance
WindowConstant(i) ==
    \A j, k \in WindowAt(i, args.window) : RollingInput[j] = RollingInput[k]

\* the percentile (kind 'rank') of the value at i among the values at ref
RankAmong(s, ref, i) ==
    LET below == Cardinality({j \in ref : Less(s[j], s[i])})
        ties  == Cardinality({j \in ref : s[j] = s[i]})
    IN  Norm((2 * below + ties + (IF ties > 0 THEN 1 ELSE 0)) * 50,
             Cardinality(ref))

RollingNull(i) ==
    CASE call = "calculate_zscore" -> ZNull(result[i])
      [] call = "calculate_percentile" -> IsNull(result[i])
      [] call = "normalize_by_adv" ->
            IsNull(adv_avg_volume(args.net_buy_value, args.close,
                                  args.window)[i])

RollingCalled ==
    call \in {"calculate_zscore", "calculate_percentile", "normalize_by_adv"}

\* C9 as stated: in every rolling computation with window w the first
\* w//2 - 1 positions are null and every later position whose window is
\* fully populated with non-null inputs is non-null.
C9_NullExactlyDuringWarmUp ==
    RollingCalled =>
        \A i \in 1..Len(RollingInput) :
            /\ i < args.window \div 2 => RollingNull(i)
            /\ i >= args.window \div 2 /\ WindowFull(i) => ~RollingNull(i)

\* C9 as the code has it: the first w//2 - 1 positions are null; a later
\* position whose window holds only non-null, finite inputs is non-null
\* in the ADV rolling mean, in the percentile rank when the window holds
\* at least two observations, and in the z-score when the window holds at
\* least two observations that are not all equal.
C9_NullDuringWarmUpAndDegenerateWindows ==
    RollingCalled =>
        \A i \in 1..Len(RollingInput) :
            /\ i < args.window \div 2 => RollingNull(i)
            /\ i >= args.window \div 2 /\ WindowClean(i) =>
                  CASE call = "normalize_by_adv" -> ~RollingNull(i)
                    [] call = "calculate_percentile" ->
                          Cardinality(WindowAt(i, args.window)) >= 2
                              => ~RollingNull(i)
                    [] call = "calculate_zscore" ->
                          /\ Cardinality(WindowAt(i, args.window)) >= 2
                                /\ ~WindowConstant(i)
                                => ~RollingNull(i)
                          /\ WindowConstant(i) => RollingNull(i)

\* a window of four: the first position is null, and a later position
\* that is past the warm-up but short of a full window has a value
C9_Witness ==
    /\ RollingCalled
    /\ args.window = 4
    /\ \E i \in 2..3 :
          /\ i <= Len(RollingInput)
          /\ WindowClean(i)
          /\ RollingNull(1)
          /\ ~RollingNull(i)

\* the window of position i has a rolling std of 0: it holds at least
\* two observations, at least min_periods of them, and they are all equal
ZeroVarianceWindow(i) ==
    LET obs == ValidIn(args.series, WindowAt(i, args.window))
    IN  /\ Cardinality(obs) >= 2
        /\ Cardinality(obs) >= args.window \div 2
        /\ \A j, k \in obs : args.series[j] = args.series[k]

\* C10: calculate_zscore returns a value for every position (the
\* division by a zero std does not raise), and at every position whose
\* window has a rolling std of 0 the z-score is null, not infinite.
C10_ZeroVarianceGivesNull ==
    call = "calculate_zscore" =>
        /\ Len(result) = Len(args.series)
        /\ \A i \in 1..Len(args.series) :
              ZeroVarianceWindow(i) => ZNull(result[i]) /\ ~ZInf(result[i])

\* a zero-variance window next to a window with a finite z-score
C10_Witness ==
    /\ call = "calculate_zscore"
    /\ \E i, j \in 1..Len(args.series) :
          /\ ZeroVarianceWindow(i)
          /\ NotNull(args.series[i])
          /\ ZNull(result[i])
          /\ ~ZNull(result[j])

-----------------------------------------------------------------------------
(* CompositeScorer: analysis/normalization.py normalize_all_signals and    *)
(* analysis/composite.py build_composite_score                             *)

MaxRows == 2

\* ZSCORE_WINDOW is 252 and PERCENTILE_WINDOW is 756 in config.py.  The
\* panels here are a few rows long, so the two windows are scaled down
\* to put the warm-up and the computed values on the same panel.
ZscoreWindow == 2

PercentileWindow == 2

ADV_WINDOW == 20

PanelValues == {Num(1), Num(2)}

\* the columns of a merged panel that the composite score reads, and the
\* date column, which every panel has
RawColumns ==
    {"date", "foreign_net_buy_val", "close", "self_net_buy_val", "pe", "pb"}

\* a column of n rows, or the empty sequence for a column that is absent
OptionalColumn(values, n) == {<<>>} \cup [1..n -> values]

\* the panels of n rows, each column present or absent
Sheet(n) ==
    [date                : {[i \in 1..n |-> i]},
     foreign_net_buy_val : OptionalColumn(PanelValues, n),
     close               : OptionalColumn({Num(2)}, n),
     self_net_buy_val    : OptionalColumn(PanelValues, n),
     pe                  : OptionalColumn(PanelValues, n),
     pb                  : OptionalColumn(PanelValues, n)]

\* a DataFrame is a function from its column names to series of one
\* length; `c in df.columns` is c \in DOMAIN df
Panel(sheet) == [c \in {k \in RawColumns : sheet[k] # <<>>} |-> sheet[c]]

\* df[c] = values
SetColumn(df, c, values) == (c :> values) @@ df

SeriesAdd(a, b) == [i \in 1..Len(a) |-> Add(a[i], b[i])]

\* the mutated replacement: the zero total kept
KeepZero(a) == a

\* total_value.replace(0, np.nan)
ReplaceZero(a) == [i \in 1..Len(a) |-> IF a[i] = Num(0) THEN NaN ELSE a[i]]

\* the mutated total: the buy value alone
TotalBuyOnly(buy_value, sell_value) == buy_value

\* total_value = buy_value + sell_value
TotalValue(buy_value, sell_value) == SeriesAdd(buy_value, sell_value)

normalize_by_gtgd(net_buy_value, buy_value, sell_value) ==
    SeriesDiv(net_buy_value, ReplaceZero(TotalValue(buy_value, sell_value)))

calculate_foreign_signals(df) ==
    IF {"foreign_net_buy_val", "close"} \subseteq DOMAIN df
    THEN SetColumn(
             SetColumn(df, "foreign_signal_adv20",
                       normalize_by_adv(df.foreign_net_buy_val, df.close,
                                        ADV_WINDOW)),
             "foreign_zscore",
             calculate_zscore(df.foreign_net_buy_val, ZscoreWindow))
    ELSE df

calculate_self_signals(df) ==
    LET df1 == IF {"self_net_buy_val", "close"} \subseteq DOMAIN df
               THEN SetColumn(df, "self_signal_adv20",
                              normalize_by_adv(df.self_net_buy_val, df.close,
                                               ADV_WINDOW))
               ELSE df
        df2 == IF {"self_net_buy_val", "self_buy_val", "self_sell_val"}
                      \subseteq DOMAIN df1
               THEN SetColumn(df1, "self_signal_gtgd",
                              normalize_by_gtgd(df1.self_net_buy_val,
                                                df1.self_buy_val,
                                                df1.self_sell_val))
               ELSE df1
    IN  IF "self_net_buy_val" \in DOMAIN df2
        THEN SetColumn(df2, "self_zscore",
                       calculate_zscore(df2.self_net_buy_val, ZscoreWindow))
        ELSE df2

\* df[metric + "_percentile"] for each of PE, PB and PCFS that is present
calculate_valuation_percentiles(df, propagate) ==
    LET WithPercentile(d, metric, name) ==
            IF metric \in DOMAIN d
            THEN SetColumn(d, name,
                           calculate_percentile(d[metric], PercentileWindow,
                                                propagate))
            ELSE d
    IN  WithPercentile(
            WithPercentile(WithPercentile(df, "pe", "pe_percentile"),
                           "pb", "pb_percentile"),
            "pcfs", "pcfs_percentile")

normalize_all_signals(df, propagate) ==
    calculate_valuation_percentiles(
        calculate_self_signals(calculate_foreign_signals(df)), propagate)

ZZero == [sgn |-> 0, sq |-> Num(0)]

\* df[FOREIGN_ZSCORE].fillna(0)
FillZscore(z) == [i \in 1..Len(z) |-> IF ZNull(z[i]) THEN ZZero ELSE z[i]]

\* the mutated fill: a null percentile replaced by 0
FillPercentileZero(p) ==
    [i \in 1..Len(p) |-> IF IsNull(p[i]) THEN Num(0) ELSE p[i]]

\* df[PE_PERCENTILE].fillna(50)
FillPercentile(p) ==
    [i \in 1..Len(p) |-> IF IsNull(p[i]) THEN Num(50) ELSE p[i]]

\* df[PE_PERCENTILE].fillna(50) / 100
PercentileScore(p) ==
    LET filled == FillPercentile(p)
    IN  [i \in 1..Len(p) |-> Div(filled[i], Num(100))]

\* The composite score of a row is zf + zs - v.  The z-scores are square
\* roots, so the sum is kept as its three terms.
build_composite_score(df0, use_self_trading, propagate) ==
    LET df == normalize_all_signals(df0, propagate)
        n  == Len(df.date)
        zeros == [i \in 1..n |-> ZZero]
        foreign == IF "foreign_zscore" \in DOMAIN df
                   THEN FillZscore(df.foreign_zscore)
                   ELSE zeros
        self == IF use_self_trading /\ "self_zscore" \in DOMAIN df
                THEN FillZscore(df.self_zscore)
                ELSE zeros
        pe_score == IF "pe_percentile" \in DOMAIN df
                    THEN PercentileScore(df.pe_percentile)
                    ELSE [i \in 1..n |-> Num(0)]
        pb_score == IF "pb_percentile" \in DOMAIN df
                    THEN PercentileScore(df.pb_percentile)
                    ELSE [i \in 1..n |-> Num(0)]
        val_score == SeriesAdd(pe_score, pb_score)
        val_count == (IF "pe_percentile" \in DOMAIN df THEN 1 ELSE 0)
                     + (IF "pb_percentile" \in DOMAIN df THEN 1 ELSE 0)
        composite ==
            [i \in 1..n |->
                [zf |-> foreign[i],
                 zs |-> self[i],
                 v  |-> IF val_count > 0
                        THEN Div(val_score[i], Num(val_count))
                        ELSE Num(0)]]
    IN  SetColumn(df, "composite_score", composite)

InitComposite ==
    /\ Idle
    /\ \E n \in 1..MaxRows :
          args \in [sheet : Sheet(n), use_self_trading : BOOLEAN,
                    propagate : BOOLEAN]

BuildCompositeScore ==
    /\ call = "idle"
    /\ call' = "build_composite_score"
    /\ result' = build_composite_score(Panel(args.sheet),
                                       args.use_self_trading, args.propagate)
    /\ UNCHANGED args

NextComposite == BuildCompositeScore

SpecComposite == InitComposite /\ [][NextComposite]_vars

\* the z-score term of row i: the z-score column's value, 0 if the value
\* is null or the column unavailable
ZscoreTerm(col, i) ==
    IF col \in DOMAIN result /\ ~ZNull(result[col][i])
    THEN result[col][i]
    ELSE ZZero

\* the valuation term of row i: the mean of the PE and PB percentiles
\* that are available, a null percentile counted as `fill`, over 100
ValuationTerm(i, fill) ==
    LET cols == {"pe_percentile", "pb_percentile"} \cap DOMAIN result
        Value(c) == IF IsNull(result[c][i]) THEN Num(fill) ELSE result[c][i]
        RECURSIVE Total(_)
        Total(cs) == IF cs = {} THEN Num(0)
                     ELSE LET c == CHOOSE x \in cs : TRUE
                          IN  Add(Value(c), Total(cs \ {c}))
    IN  IF cols = {} THEN Num(0)
        ELSE Div(Total(cols), Num(100 * Cardinality(cols)))

\* score = zf + zs - v on every row, a null percentile counted as `fill`
ScoreIsSumOfTerms(fill) ==
    call = "build_composite_score" =>
        \A i \in 1..Len(result.date) :
            result.composite_score[i] =
                [zf |-> ZscoreTerm("foreign_zscore", i),
                 zs |-> IF args.use_self_trading
                        THEN ZscoreTerm("self_zscore", i)
                        ELSE ZZero,
                 v  |-> ValuationTerm(i, fill)]

\* C2 as stated: score = zf + zs - v with zf and zs the z-scores (0 if
\* null, unavailable or, for zs, disabled) and v the mean of the PE and PB
\* percentiles over 100 in which a null percentile contributes 0.
C2_MissingComponentsContributeZero == ScoreIsSumOfTerms(0)

\* C2 as the code has it: score = zf + zs - v with zf and zs the z-scores
\* (0 if null, unavailable or, for zs, disabled) and v the mean of the
\* available PE and PB percentiles over 100 (0 if neither is available) in
\* which a null percentile is replaced by 50 and so contributes 0.5.
C2_NullPercentileCountsAsFifty == ScoreIsSumOfTerms(50)

\* one row scored from a null z-score and a null percentile, another from
\* a z-score and a percentile that have values
C2_Witness ==
    /\ call = "build_composite_score"
    /\ {"foreign_zscore", "self_zscore", "pe_percentile", "pb_percentile"}
           \subseteq DOMAIN result
    /\ args.use_self_trading
    /\ \E i, j \in 1..Len(result.date) :
          /\ ZNull(result.foreign_zscore[i])
          /\ IsNull(result.pe_percentile[i])
          /\ result.composite_score[i] =
                 [zf |-> ZZero, zs |-> ZZero, v |-> Norm(1, 2)]
          /\ result.composite_score[j].zf.sgn # 0
          /\ result.composite_score[j].zs.sgn # 0
          /\ NotNull(result.pe_percentile[j])
          /\ result.composite_score[j].v # Norm(1, 2)

-----------------------------------------------------------------------------
(* QuintileBacktest: analysis/composite.py quintile_backtest               *)

MaxBtRows == 5

\* composite scores with ties (the rank fallback): k rows of one score
\* and then the rows of another, lower or higher, or the two scores in
\* turn; and without ties (qcut)
BtScores(n) ==
    {[i \in 1..n |-> IF i <= k THEN Num(lo) ELSE Num(3 - lo)] :
        k \in 0..n, lo \in 1..2}
        \cup {[i \in 1..n |-> IF i % 2 = 1 THEN Num(lo) ELSE Num(3 - lo)] :
                  lo \in 1..2}
        \cup {[i \in 1..n |-> Num(i)]}

\* A square root, or a quotient of square roots, is sgn * sqrt(sq), as a
\* z-score is: x ** 0.5 for x >= 0, and a rational as the root of its
\* square.  A null has sgn = 0 and sq = NaN.
SqrtOf(x) == [sgn |-> IF IsNull(x) THEN 0 ELSE Sign(x[1]), sq |-> x]

RootOf(x) == [sgn |-> IF IsNull(x) THEN 0 ELSE Sign(x[1]), sq |-> Mul(x, x)]

RootMul(a, b) ==
    LET sq == Mul(a.sq, b.sq)
    IN  [sgn |-> IF IsNull(sq) THEN 0 ELSE a.sgn * b.sgn, sq |-> sq]

RootDiv(a, b) ==
    LET sq == Div(a.sq, b.sq)
    IN  [sgn |-> IF IsNull(sq) THEN 0
                 ELSE IF b.sgn = 0 THEN a.sgn ELSE a.sgn * b.sgn,
         sq |-> sq]

RootNull == [sgn |-> 0, sq |-> NaN]

\* Series.mean() and Series.std() ** 2 of the values of s at positions idx
GroupMean(s, idx) == IF idx = {} THEN NaN ELSE MeanOver(s, idx)

GroupVar(s, idx) ==
    IF Cardinality(idx) < 2 THEN NaN
    ELSE Div(SsqOver(s, idx, MeanOver(s, idx)), Num(Cardinality(idx) - 1))

\* the mutated volatility: sqrt((q5_std^2 + q1_std^2) / 2) / sqrt(2)
SpreadStdHalved(q5_var, q1_var) ==
    RootDiv(SqrtOf(Div(Add(q5_var, q1_var), Num(2))), SqrtOf(Num(2)))

\* ((q5_std**2 + q1_std**2) ** 0.5) / (2 ** 0.5)
SpreadStd(q5_var, q1_var) ==
    RootDiv(SqrtOf(Add(q5_var, q1_var)), SqrtOf(Num(2)))

\* the mutated guard: any spread std that is not null
StdNotNull(std) == NotNull(std.sq)

\* strategy_returns_std > 0, false for a null
StdPositive(std) == NotNull(std.sq) /\ std.sgn > 0

\* (mean * periods_per_year) / (std * periods_per_year ** 0.5)
SharpeRatio(mean, std, horizon) ==
    IF StdPositive(std)
    THEN LET periods_per_year == 252 \div horizon
         IN  RootDiv(RootOf(Mul(mean, Num(periods_per_year))),
                     RootMul(std, SqrtOf(Num(periods_per_year))))
    ELSE RootNull

\* the rows of df[df[QUINTILE] == label][fwd_ret_col].dropna()
QuintileRows(labels, fwd, label) ==
    {i \in 1..Len(labels) : labels[i] = label /\ NotNull(fwd[i])}

\* df.groupby(QUINTILE)[fwd_ret_col].agg(mean, std, count); a quintile
\* without rows is listed with count 0
QuintileReturns(labels, fwd) ==
    [q \in 1..5 |->
        LET rows == QuintileRows(labels, fwd, q)
        IN  [mean  |-> GroupMean(fwd, rows),
             std   |-> SqrtOf(GroupVar(fwd, rows)),
             count |-> Cardinality(rows)]]

\* df[CLOSE].pct_change(horizon).shift(-horizon): the closing prices of
\* these panels hold no null, so the padding of pct_change changes nothing
quintile_backtest(df, horizon) ==
    IF "composite_score" \notin DOMAIN df
    THEN [error |-> "No composite score"]
    ELSE IF "close" \notin DOMAIN df
    THEN [error |-> "Cannot calculate returns"]
    ELSE LET labels == create_quintiles(df.composite_score).labels
             fwd    == ForwardReturn(df.close, horizon, FALSE)
             q5     == QuintileRows(labels, fwd, 5)
             q1     == QuintileRows(labels, fwd, 1)
             mean   == Sub(GroupMean(fwd, q5), GroupMean(fwd, q1))
             std    == SpreadStd(GroupVar(fwd, q5), GroupVar(fwd, q1))
         IN  [quintile_returns      |-> QuintileReturns(labels, fwd),
              strategy_returns_mean |-> mean,
              strategy_returns_std  |-> std,
              sharpe_ratio          |-> SharpeRatio(mean, std, horizon),
              sample_size           |->
                  Cardinality({i \in 1..Len(fwd) :
                                  /\ NotNull(df.composite_score[i])
                                  /\ NotNull(fwd[i])})]

\* the panels of n rows with a composite score and a close, each column
\* present or absent, in the layout of Sheet
BtSheet(n) ==
    [date            : {[i \in 1..n |-> i]},
     composite_score : {<<>>} \cup BtScores(n),
     close           : OptionalColumn(PanelValues, n)]

BtPanel(sheet) ==
    [c \in {k \in {"date", "composite_score", "close"} : sheet[k] # <<>>}
        |-> sheet[c]]

InitBacktest ==
    /\ Idle
    /\ \E n \in 1..MaxBtRows :
          args \in [sheet : BtSheet(n), horizon : 1..MaxHorizon]

QuintileBacktest ==
    /\ call = "idle"
    /\ call' = "quintile_backtest"
    /\ result' = quintile_backtest(BtPanel(args.sheet), args.horizon)
    /\ UNCHANGED args

NextBacktest == QuintileBacktest

SpecBacktest == InitBacktest /\ [][NextBacktest]_vars

BacktestRan == call = "quintile_backtest" /\ "error" \notin DOMAIN result

\* the forward returns and the quintile labels of the panel backtested
BtForward == ForwardReturn(args.sheet.close, args.horizon, FALSE)

BtLabels == create_quintiles(args.sheet.composite_score).labels

\* the sample variance of the non-null values of fwd on the rows with the
\* given label, from their sum and their sum of squares:
\* (sum x^2 - (sum x)^2 / n) / (n - 1)
VarianceOfQuintile(labels, fwd, label) ==
    LET rows == {i \in 1..Len(fwd) : labels[i] = label /\ NotNull(fwd[i])}
        n    == Cardinality(rows)
        sq   == [i \in 1..Len(fwd) |-> Mul(fwd[i], fwd[i])]
        sum  == SumOver(fwd, rows)
    IN  IF n < 2 THEN NaN
        ELSE Div(Sub(SumOver(sq, rows), Div(Mul(sum, sum), Num(n))),
                 Num(n - 1))

\* the sum of the sample variances of the Q5 and the Q1 forward returns
\* of the panel backtested
BtVarianceSum ==
    LET labels == BtLabels
        fwd    == BtForward
    IN  Add(VarianceOfQuintile(labels, fwd, 5),
            VarianceOfQuintile(labels, fwd, 1))

\* C11 as stated: the spread volatility is
\* sqrt((std_Q5^2 + std_Q1^2) / 2) / sqrt(2): its square is a quarter of
\* the sum of the sample variances of the Q5 and Q1 forward returns.
C11_SpreadVarianceIsQuarterOfSum ==
    BacktestRan =>
        result.strategy_returns_std.sq = Div(BtVarianceSum, Num(4))

\* C11 as the code has it: the spread volatility is
\* sqrt(std_Q5^2 + std_Q1^2) / sqrt(2), the pooled standard deviation: its
\* square is half the sum of the two sample variances.
C11_SpreadVarianceIsHalfOfSum ==
    BacktestRan =>
        /\ result.strategy_returns_std.sq = Div(BtVarianceSum, Num(2))
        /\ result.strategy_returns_std.sgn >= 0

\* both quintiles hold two returns and the spread volatility is positive
C11_Witness ==
    /\ BacktestRan
    /\ result.quintile_returns[5].count >= 2
    /\ result.quintile_returns[1].count >= 2
    /\ result.quintile_returns[5].std # result.quintile_returns[1].std
    /\ NotNull(BtVarianceSum)
    /\ result.strategy_returns_std.sgn = 1

\* C12: Sharpe is (spread_mean * ppy) / (spread_std * sqrt(ppy)) with
\* ppy = 252 // horizon where the spread std is positive, and is null,
\* neither infinite nor zero, where the spread std is zero or undefined.
C12_SharpeNullWithoutVolatility ==
    BacktestRan =>
        LET std  == result.strategy_returns_std
            mean == result.strategy_returns_mean
            ppy  == 252 \div args.horizon
        IN  IF IsNull(std.sq) \/ std.sq = Num(0)
            THEN result.sharpe_ratio = RootNull
            ELSE /\ result.sharpe_ratio.sq =
                        Div(Mul(Mul(mean, mean), Num(ppy * ppy)),
                            Mul(std.sq, Num(ppy)))
                 /\ result.sharpe_ratio.sgn = Sign(mean[1])

\* a backtest with a spread std of zero and a non-zero spread mean, where
\* the quotient would be infinite
C12_Witness ==
    /\ BacktestRan
    /\ result.strategy_returns_std.sq = Num(0)
    /\ NotNull(result.strategy_returns_mean)
    /\ result.strategy_returns_mean # Num(0)
    /\ result.sharpe_ratio = RootNull

-----------------------------------------------------------------------------
(* CapmAttribution: analysis/composite.py capm_analysis                    *)

MaxCapmDates == 11

\* A return series is a function from its index, a set of dates, to
\* values.  The series checked follow a shape over the dates 1..n, with
\* at most one date that is missing from the index or holds a null.
ShapeValue(shape, i) ==
    CASE shape = "flat" -> Num(1)
      [] shape = "turn" -> IF i % 2 = 1 THEN Num(1) ELSE Num(2)
      [] shape = "ramp" -> Num(i)

Shapes == {"flat", "turn", "ramp"}

Holes(n) == {[date |-> 0, kind |-> "none"]}
                \cup [date : 1..n, kind : {"null", "absent"}]

ReturnSeries(n, shape, hole) ==
    [i \in {j \in 1..n : ~(hole.kind = "absent" /\ hole.date = j)} |->
        IF hole.kind = "null" /\ hole.date = i THEN NaN
        ELSE ShapeValue(shape, i)]

\* pd.DataFrame({'stock': ..., 'market': ...}).dropna(): the dates of the
\* union of the two indexes where both series hold a value
PairedDates(stock, market) ==
    {t \in DOMAIN stock \cap DOMAIN market :
        NotNull(stock[t]) /\ NotNull(market[t])}

\* the sum of (x - mean x) * (y - mean y) over the dates idx, summed by
\* halves
RECURSIVE CrossOver(_, _, _, _, _)
CrossOver(x, y, idx, mx, my) ==
    IF idx = {} THEN Num(0)
    ELSE IF Cardinality(idx) = 1
    THEN LET t == CHOOSE k \in idx : TRUE
         IN  Mul(Sub(x[t], mx), Sub(y[t], my))
    ELSE Add(CrossOver(x, y, EarlierHalf(idx), mx, my),
             CrossOver(x, y, idx \ EarlierHalf(idx), mx, my))

RECURSIVE TotalOver(_, _)
TotalOver(x, idx) ==
    IF idx = {} THEN Num(0)
    ELSE IF Cardinality(idx) = 1
    THEN x[CHOOSE k \in idx : TRUE]
    ELSE Add(TotalOver(x, EarlierHalf(idx)),
             TotalOver(x, idx \ EarlierHalf(idx)))

\* Series.mean(), Series.cov(other) and Series.var() on the paired dates
PairedMean(x, idx) == Div(TotalOver(x, idx), Num(Cardinality(idx)))

Covariance(x, y, idx) ==
    Div(CrossOver(x, y, idx, PairedMean(x, idx), PairedMean(y, idx)),
        Num(Cardinality(idx) - 1))

\* the mutated annualisation: the raw-period value
RawPeriod(x) == x

\* x * periods_per_year, periods_per_year = 252
Annualize(x) == Mul(x, Num(252))

\* the mutated beta: the quotient whatever the market variance
BetaUnguarded(covariance, market_var) == Div(covariance, market_var)

\* covariance / market_var if market_var != 0 else 0
Beta(covariance, market_var) ==
    IF market_var # Num(0) THEN Div(covariance, market_var) ELSE Num(0)

\* the mutated threshold: len(df) < 9
TooFewPairsNine(n) == n < 9

\* len(df) < 10
TooFewPairs(n) == n < 10

capm_analysis(stock_returns, market_returns) ==
    LET df == PairedDates(stock_returns, market_returns)
    IN  IF TooFewPairs(Cardinality(df))
        THEN [error |-> "Insufficient data"]
        ELSE LET covariance  == Covariance(stock_returns, market_returns, df)
                 market_var  == Covariance(market_returns, market_returns, df)
                 beta        == Beta(covariance, market_var)
                 mean_stock  == PairedMean(stock_returns, df)
                 mean_market == PairedMean(market_returns, df)
                 alpha       == Sub(mean_stock, Mul(beta, mean_market))
             IN  [alpha       |-> Annualize(alpha),
                  beta        |-> beta,
                  mean_return |-> Annualize(mean_stock),
                  sample_size |-> Cardinality(df)]

InitCapm ==
    /\ Idle
    /\ \E n \in 1..MaxCapmDates :
          args \in [n : {n}, stock_shape : Shapes, market_shape : Shapes,
                    stock_hole : Holes(n), market_hole : Holes(n)]

CapmStock == ReturnSeries(args.n, args.stock_shape, args.stock_hole)

CapmMarket == ReturnSeries(args.n, args.market_shape, args.market_hole)

CapmAnalysis ==
    /\ call = "idle"
    /\ call' = "capm_analysis"
    /\ result' = capm_analysis(CapmStock, CapmMarket)
    /\ UNCHANGED args

NextCapm == CapmAnalysis

SpecCapm == InitCapm /\ [][NextCapm]_vars

CapmCalled == call = "capm_analysis"

CapmReported == CapmCalled /\ "error" \notin DOMAIN result

\* the dates on which both the strategy and the market series of the
\* call hold a value
CapmPairs ==
    {t \in 1..args.n : args.stock_hole.date # t /\ args.market_hole.date # t}

\* sums over the paired dates of the call
CapmSum(F(_)) ==
    LET RECURSIVE Go(_)
        Go(idx) == IF idx = {} THEN Num(0)
                   ELSE LET t == CHOOSE k \in idx : TRUE
                        IN  Add(F(t), Go(idx \ {t}))
    IN  Go(CapmPairs)

CapmCount == Num(Cardinality(CapmPairs))

CapmMeanStock ==
    LET S(t) == ShapeValue(args.stock_shape, t) IN Div(CapmSum(S), CapmCount)

CapmMeanMarket ==
    LET M(t) == ShapeValue(args.market_shape, t) IN Div(CapmSum(M), CapmCount)

\* cov(strategy, market) and var(market), each times (n - 1):
\* sum xy - (sum x)(sum y) / n
CapmCrossSum ==
    LET S(t)  == ShapeValue(args.stock_shape, t)
        M(t)  == ShapeValue(args.market_shape, t)
        SM(t) == Mul(S(t), M(t))
    IN  Sub(CapmSum(SM), Div(Mul(CapmSum(S), CapmSum(M)), CapmCount))

CapmMarketSquares ==
    LET M(t)  == ShapeValue(args.market_shape, t)
        MM(t) == Mul(M(t), M(t))
    IN  Sub(CapmSum(MM), Div(Mul(CapmSum(M), CapmSum(M)), CapmCount))

\* C13 as stated: the result holds four values, the raw-period and the
\* annualized (x252) alpha and the raw-period and the annualized mean
\* strategy return.
C13_RawAndAnnualReported ==
    CapmReported =>
        \E a, aa, m, ma \in DOMAIN result \ {"beta", "sample_size"} :
            /\ Cardinality({a, aa, m, ma}) = 4
            /\ result[aa] = Mul(result[a], Num(252))
            /\ result[m] = CapmMeanStock
            /\ result[ma] = Mul(CapmMeanStock, Num(252))

\* C13 as the code has it: the result holds alpha, beta, mean_return and
\* sample_size; alpha and mean_return are the annualized (x252) values,
\* and the raw-period values are not reported.
C13_OnlyAnnualReported ==
    CapmReported =>
        /\ DOMAIN result = {"alpha", "beta", "mean_return", "sample_size"}
        /\ result.mean_return = Mul(CapmMeanStock, Num(252))
        /\ result.alpha =
               Mul(Sub(CapmMeanStock, Mul(result.beta, CapmMeanMarket)),
                   Num(252))

\* a report whose alpha and mean return differ from the raw-period values
C13_Witness ==
    /\ CapmReported
    /\ result.mean_return # CapmMeanStock
    /\ result.alpha # Num(0)
    /\ result.beta # Num(0)

\* C14: beta is cov(strategy, market) / var(market) over the paired dates
\* and alpha is mean(strategy) - beta * mean(market) (reported x252); when
\* the market variance is zero beta is 0, not null or infinite, and alpha
\* is mean(strategy).
C14_BetaAndAlpha ==
    CapmReported =>
        /\ IF CapmMarketSquares = Num(0)
           THEN /\ result.beta = Num(0)
                /\ Div(result.alpha, Num(252)) = CapmMeanStock
           ELSE result.beta = Div(CapmCrossSum, CapmMarketSquares)
        /\ Div(result.alpha, Num(252)) =
               Sub(CapmMeanStock, Mul(result.beta, CapmMeanMarket))
        /\ IsFinite(result.beta)

\* a report on a market without variance against a strategy with some
C14_Witness ==
    /\ CapmReported
    /\ args.market_shape = "flat"
    /\ args.stock_shape = "ramp"
    /\ result.beta = Num(0)
    /\ result.alpha = Mul(CapmMeanStock, Num(252))

\* C15: the result is the insufficient-data error record, without alpha
\* or beta, exactly when fewer than 10 paired dates remain.
C15_ErrorBelowTenPairs ==
    CapmCalled =>
        IF Cardinality(CapmPairs) < 10
        THEN result = [error |-> "Insufficient data"]
        ELSE /\ "error" \notin DOMAIN result
             /\ {"alpha", "beta"} \subseteq DOMAIN result
             /\ result.sample_size = Cardinality(CapmPairs)

\* eleven dates of which nine are paired: one date is null in the
\* strategy series, another is missing from the market index
C15_Witness ==
    /\ CapmCalled
    /\ args.n = 11
    /\ Cardinality(CapmPairs) = 9
    /\ args.stock_hole.kind = "null"
    /\ args.market_hole.kind = "absent"
    /\ result = [error |-> "Insufficient data"]

-----------------------------------------------------------------------------
(* SignalNormalizer, GTGD: analysis/normalization.py normalize_by_gtgd,    *)
(* and the net-buy value that data/loader.py load_self_trading derives     *)

MaxGtgdLen == 2

GtgdNetValues == {NaN, Num(-1), Num(0), Num(1), Num(2)}

GtgdBuyValues == {NaN, Num(0), Num(1)}

GtgdSellValues == {Num(-1), Num(0), Num(1)}

\* df[SELF_NET_BUY_VAL] = df[SELF_BUY_VAL] - df[SELF_SELL_VAL]
self_net_buy_val(buy_value, sell_value) == SeriesSub(buy_value, sell_value)

InitGtgd ==
    /\ Idle
    /\ \E n \in 1..MaxGtgdLen :
          args \in [net_buy_value : [1..n -> GtgdNetValues],
                    buy_value     : [1..n -> GtgdBuyValues],
                    sell_value    : [1..n -> GtgdSellValues]]

NormalizeByGtgd ==
    /\ call = "idle"
    /\ call' = "normalize_by_gtgd"
    /\ result' = normalize_by_gtgd(args.net_buy_value, args.buy_value,
                                   args.sell_value)
    /\ UNCHANGED args

\* the GTGD signal of a loaded self-trading sheet: the net-buy value is
\* the one load_self_trading derives from the buy and the sell value
SelfSignalGtgd ==
    /\ call = "idle"
    /\ call' = "self_signal_gtgd"
    /\ result' = normalize_by_gtgd(
                     self_net_buy_val(args.buy_value, args.sell_value),
                     args.buy_value, args.sell_value)
    /\ UNCHANGED args

NextGtgd == NormalizeByGtgd \/ SelfSignalGtgd

SpecGtgd == InitGtgd /\ [][NextGtgd]_vars

GtgdCalled == call \in {"normalize_by_gtgd", "self_signal_gtgd"}

\* buy_value + sell_value of row i
GtgdTotal(i) == Add(args.buy_value[i], args.sell_value[i])

\* the net-buy value of row i that the call divided
GtgdNet(i) ==
    IF call = "self_signal_gtgd"
    THEN Sub(args.buy_value[i], args.sell_value[i])
    ELSE args.net_buy_value[i]

InUnitRange(x) == NotNull(x) /\ LessEq(Num(-1), x) /\ LessEq(x, Num(1))

\* C16: the signal is null, not 0 and not infinite, on every row where
\* buy_value + sell_value = 0, whatever the net-buy value of the row.
C16_NullWhereNothingTraded ==
    GtgdCalled =>
        \A i \in 1..Len(result) :
            GtgdTotal(i) = Num(0) => IsNull(result[i])

\* rows without trade, with a net-buy value and with offsetting values
C16_Witness ==
    /\ call = "normalize_by_gtgd"
    /\ \E i, j \in 1..Len(result) :
          /\ args.buy_value[i] = Num(0) /\ args.sell_value[i] = Num(0)
          /\ args.net_buy_value[i] = Num(2)
          /\ args.buy_value[j] = Num(1) /\ args.sell_value[j] = Num(-1)
          /\ IsNull(result[i]) /\ IsNull(result[j])

-----------------------------------------------------------------------------
(* SignalNormalizer, ADV: the claims on normalize_by_adv, under SpecRolling *)

AdvCalled == call = "normalize_by_adv"

\* the estimated volume of session t and its absolute value
AdvVolume(t) == Div(args.net_buy_value[t], args.close[t])

AdvAbsVolume(t) == <<Abs(AdvVolume(t)[1]), AdvVolume(t)[2]>>

\* the mean of the absolute estimated volumes at the sessions `used` of
\* the trailing window that ends at t, null below window // 2 of them
AdvMeanOf(used) ==
    LET RECURSIVE Total(_)
        Total(idx) == IF idx = {} THEN Num(0)
                      ELSE LET j == CHOOSE k \in idx : TRUE
                           IN  Add(AdvAbsVolume(j), Total(idx \ {j}))
    IN  IF used = {} \/ Cardinality(used) < args.window \div 2 THEN NaN
        ELSE Div(Total(used), Num(Cardinality(used)))

AdvWindow(t) == {j \in 1..t : j > t - args.window}

C19_NullWhereCloseNullOrZero ==
    AdvCalled =>
        \A t \in 1..Len(result) :
            IsNull(args.close[t]) \/ args.close[t] = Num(0)
                => IsNull(result[t])

-----------------------------------------------------------------------------
(* Monotonicity: analysis/statistics.py test_monotonicity                  *)

MaxGroups == 4

GroupMeans == {NaN, Num(1), Num(2), Num(3), Num(4)}

\* the mutated ranks: 1..n whatever the hypothesis
GivenOrderRanks(n, increasing) == [i \in 1..n |-> Num(i)]

\* ranks = list(range(1, len(values) + 1)), reversed if not increasing
HypothesisRanks(n, increasing) ==
    [i \in 1..n |-> IF increasing THEN Num(i) ELSE Num(n + 1 - i)]

\* scipy.stats.rankdata: the average rank of each value among the values
AverageRanks(x) ==
    [i \in 1..Len(x) |->
        Norm(2 * Cardinality({j \in 1..Len(x) : Less(x[j], x[i])})
                 + Cardinality({j \in 1..Len(x) : x[j] = x[i]}) + 1, 2)]

\* The two-sided p-value of a correlation r on n points is
\* 2 * sf(|t|, n - 2) of Student's t with t^2 = r^2 (n - 2) / (1 - r^2).
\* It is kept as t^2 and the degrees of freedom; a null has t_sq = NaN.
PNull == [t_sq |-> NaN, df |-> 0]

PValueOf(r, n) ==
    LET t_sq == Div(Mul(r.sq, Num(n - 2)), Sub(Num(1), r.sq))
    IN  IF IsNull(t_sq) THEN PNull ELSE [t_sq |-> t_sq, df |-> n - 2]

\* the square of the 0.975 quantile of Student's t for 1, 2, ... degrees
\* of freedom, in ten-thousandths: p < 0.05 exactly when t^2 exceeds it
CriticalTable ==
    <<1614476, 185128, 101280, 77086, 66079, 59874, 55914, 53177,
      51174, 49646, 48443, 47472, 46672, 46001, 45431, 44940,
      44513, 44139, 43807, 43512, 43248, 43009, 42793, 42597,
      42417, 42252, 42100, 41960, 41830, 41709, 41596, 41491,
      41393, 41300, 41213, 41132, 41055, 40982, 40913, 40847,
      40785, 40727, 40670, 40617, 40566, 40517, 40471, 40427,
      40384, 40343, 40304, 40266, 40230, 40195, 40162, 40130,
      40099, 40069, 40040, 40012, 39985, 39959, 39934, 39909,
      39886, 39863>>

\* floor(p * 10^k / q) by long division, for p >= 0 and q > 0
RECURSIVE FloorScaled(_, _, _)
FloorScaled(p, q, k) ==
    IF k = 0 THEN p \div q
    ELSE (p \div q) * 10^k + FloorScaled((p % q) * 10, q, k - 1)

\* x > c / 10000, false for a null
ExceedsTenThousandths(x, c) ==
    IF IsNull(x) THEN FALSE
    ELSE IF IsInf(x) THEN x = PosInf
    ELSE /\ x[1] > 0
         /\ \/ x[1] \div x[2] >= 1000
            \/ LET f == FloorScaled(x[1], x[2], 4)
               IN  \/ f > c
                   \/ /\ f = c
                      /\ ~(/\ 10000 % x[2] = 0
                           /\ x[1] * (10000 \div x[2]) = c)

\* t_sq exceeds the critical value for df degrees of freedom
ExceedsCritical(t_sq, df) ==
    ExceedsTenThousandths(t_sq, CriticalTable[Min(df, Len(CriticalTable))])

\* p_val < SIGNIFICANCE_LEVEL, false for a null
PBelowAlpha(p) == p # PNull /\ ExceedsCritical(p.t_sq, p.df)

\* scipy.stats.spearmanr(a, b): the Pearson correlation of the average
\* ranks, as sign and square, with its p-value; null for a null in the
\* input and for a constant input
Spearman(a, b) ==
    LET n   == Len(a)
        idx == 1..n
        ra  == AverageRanks(a)
        rb  == AverageRanks(b)
        ma  == MeanOver(ra, idx)
        mb  == MeanOver(rb, idx)
        sab == CrossOver(ra, rb, idx, ma, mb)
        saa == SsqOver(ra, idx, ma)
        sbb == SsqOver(rb, idx, mb)
        sq  == Div(Mul(sab, sab), Mul(saa, sbb))
        r   == IF (\E i \in idx : IsNull(a[i]) \/ IsNull(b[i])) \/ IsNull(sq)
               THEN RootNull
               ELSE [sgn |-> Sign(sab[1]), sq |-> sq]
    IN  [corr |-> r, p_val |-> PValueOf(r, n)]

test_monotonicity(values, increasing) ==
    IF Len(values) < 3
    THEN [is_monotonic |-> FALSE,
          correlation  |-> RootNull,
          p_value      |-> PNull,
          warning      |-> "Too few points for monotonicity test"]
    ELSE LET ranks == HypothesisRanks(Len(values), increasing)
             sp    == Spearman(ranks, values)
         IN  [is_monotonic |-> sp.corr.sgn > 0 /\ PBelowAlpha(sp.p_val),
              correlation  |-> sp.corr,
              p_value      |-> sp.p_val,
              warning      |-> "None"]

InitMonotonicity ==
    /\ Idle
    /\ args \in [values : SeqUpTo(GroupMeans, MaxGroups), increasing : BOOLEAN]

TestMonotonicity ==
    /\ call = "idle"
    /\ call' = "test_monotonicity"
    /\ result' = test_monotonicity(args.values, args.increasing)
    /\ UNCHANGED args

NextMonotonicity == TestMonotonicity

SpecMonotonicity == InitMonotonicity /\ [][NextMonotonicity]_vars

MonotonicityCalled == call = "test_monotonicity"

\* with fewer than 3 groups: not monotonic, null correlation and p-value,
\* and a warning
TooFewGroupsReported ==
    Len(args.values) < 3 =>
        /\ ~result.is_monotonic
        /\ result.correlation = RootNull
        /\ result.p_value = PNull
        /\ result.warning # "None"

\* the rank correlation between the group ranks 1..k in the given order
\* and the group means
GivenOrderCorrelation ==
    Spearman([i \in 1..Len(args.values) |-> Num(i)], args.values).corr

-----------------------------------------------------------------------------
(* InformationCoefficient: analysis/statistics.py and analysis/ranking.py  *)
(* calculate_information_coefficient                                       *)

MaxIcDates == 10

\* the values of x on the dates idx, in date order
PairedValues(x, idx) ==
    [i \in 1..Cardinality(idx) |->
        x[CHOOSE t \in idx : Cardinality({u \in idx : u <= t}) = i]]

\* scipy.stats.pearsonr on the values of a and b at the positions idx:
\* the correlation as sign and square, with its p-value; null for a
\* constant input, and p = 1 on two points
PearsonOver(a, b, idx) ==
    LET n   == Cardinality(idx)
        ma  == MeanOver(a, idx)
        mb  == MeanOver(b, idx)
        sab == CrossOver(a, b, idx, ma, mb)
        saa == SsqOver(a, idx, ma)
        sbb == SsqOver(b, idx, mb)
        sq  == Div(Mul(sab, sab), Mul(saa, sbb))
        r   == IF IsNull(sq) THEN RootNull
               ELSE [sgn |-> Sign(sab[1]), sq |-> sq]
    IN  [corr  |-> r,
         p_val |-> IF r = RootNull THEN PNull
                   ELSE IF n = 2 THEN [t_sq |-> Num(0), df |-> 1]
                   ELSE PValueOf(r, n)]

Pearson(a, b) == PearsonOver(a, b, 1..Len(a))

Correlation(a, b, method) ==
    IF method = "pearson" THEN Pearson(a, b) ELSE Spearman(a, b)

\* config.py
MIN_SAMPLE_SIZE == 30

\* the mutated guard: len(df) < 1
IcInsufficientOne(n) == n < 1

\* statistics.py: len(df) < 2
IcInsufficient(n) == n < 2

\* statistics.py: the result has no t-statistic
calculate_information_coefficient(signal, forward_return, method) ==
    LET df == PairedDates(signal, forward_return)
        n  == Cardinality(df)
    IN  IF IcInsufficient(n)
        THEN [ic          |-> RootNull,
              p_value     |-> PNull,
              n           |-> 0,
              significant |-> FALSE,
              warning     |-> "Insufficient data"]
        ELSE LET c == Correlation(PairedValues(signal, df),
                                  PairedValues(forward_return, df), method)
             IN  [ic          |-> c.corr,
                  p_value     |-> c.p_val,
                  n           |-> n,
                  significant |-> PBelowAlpha(c.p_val),
                  warning     |-> IF n >= MIN_SAMPLE_SIZE THEN "None"
                                  ELSE "Small sample size"]

\* the mutated threshold: len(valid_data) < 2
IcTooFewPairsTwo(n) == n < 2

\* ranking.py: len(valid_data) < 10
IcTooFewPairs(n) == n < 10

\* ic * np.sqrt((n - 2) / (1 - ic ** 2)) if abs(ic) < 1 else np.inf
TStat(ic, n) ==
    IF ic # RootNull /\ Less(ic.sq, Num(1))
    THEN [sgn |-> ic.sgn,
          sq  |-> Mul(ic.sq, Div(Num(n - 2), Sub(Num(1), ic.sq)))]
    ELSE [sgn |-> 1, sq |-> PosInf]

\* ranking.py: df[[metric, return_col]].dropna(), the two columns of one
\* frame
ranking_calculate_information_coefficient(metric, return_col, method) ==
    LET valid_data == PairedDates(metric, return_col)
        n          == Cardinality(valid_data)
    IN  IF IcTooFewPairs(n)
        THEN [ic |-> RootNull, t_stat |-> RootNull, p_value |-> PNull,
              n |-> 0]
        ELSE LET c == Correlation(PairedValues(metric, valid_data),
                                  PairedValues(return_col, valid_data),
                                  method)
             IN  [ic      |-> c.corr,
                  t_stat  |-> TStat(c.corr, n),
                  p_value |-> c.p_val,
                  n       |-> n]

\* The two series follow a shape over the dates 1..n with at most one
\* hole each, on the first, the second or the last date.  The columns of
\* one frame share its index, so for ranking.py a hole is a null.
IcHoles(n) == {h \in Holes(n) : h.date \in {0, 1, 2, n}}

InitIc ==
    /\ Idle
    /\ \E n \in 0..MaxIcDates :
          args \in [n : {n}, signal_shape : Shapes, return_shape : Shapes,
                    signal_hole : IcHoles(n), return_hole : IcHoles(n),
                    method : {"pearson", "spearman"}]

IcSignal == ReturnSeries(args.n, args.signal_shape, args.signal_hole)

IcReturn == ReturnSeries(args.n, args.return_shape, args.return_hole)

NullHole(hole) ==
    IF hole.kind = "absent" THEN [hole EXCEPT !.kind = "null"] ELSE hole

IcMetricColumn ==
    ReturnSeries(args.n, args.signal_shape, NullHole(args.signal_hole))

IcReturnColumn ==
    ReturnSeries(args.n, args.return_shape, NullHole(args.return_hole))

CalculateInformationCoefficient ==
    /\ call = "idle"
    /\ call' = "calculate_information_coefficient"
    /\ result' = calculate_information_coefficient(IcSignal, IcReturn,
                                                   args.method)
    /\ UNCHANGED args

RankingCalculateInformationCoefficient ==
    /\ call = "idle"
    /\ call' = "ranking_calculate_information_coefficient"
    /\ result' = ranking_calculate_information_coefficient(
                     IcMetricColumn, IcReturnColumn, args.method)
    /\ UNCHANGED args

NextIc ==
    \/ CalculateInformationCoefficient
    \/ RankingCalculateInformationCoefficient

SpecIc == InitIc /\ [][NextIc]_vars

IcCalled == call = "calculate_information_coefficient"

RankingIcCalled == call = "ranking_calculate_information_coefficient"

IcPairs == Cardinality(PairedDates(IcSignal, IcReturn))

\* the series is correlated with itself
IcSelf == IcSignal = IcReturn

\* the paired values of the signal are all the same
IcConstant ==
    \A t, u \in PairedDates(IcSignal, IcReturn) : IcSignal[t] = IcSignal[u]

RootInfinite(t) == IsInf(t.sq)

RootOne == [sgn |-> 1, sq |-> Num(1)]

\* ic * sqrt((n - 2) / (1 - ic^2)), infinite when |ic| = 1
TStatOfIc(ic, n) ==
    IF ic.sq = Num(1) THEN RootInfinite(result.t_stat)
    ELSE /\ result.t_stat.sgn = ic.sgn
         /\ result.t_stat.sq =
                Div(Mul(ic.sq, Num(n - 2)), Sub(Num(1), ic.sq))

C21_WitnessFinite ==
    /\ RankingIcCalled
    /\ IcPairs >= 10
    /\ result.t_stat.sgn # 0
    /\ IsFinite(result.t_stat.sq)

\* C22: with fewer than 2 rows where both series hold a value, the
\* statistics IC returns a null ic, a null p-value, n equal to 0 or 1,
\* significant = false and a warning.
C22_NullBelowTwoPairs ==
    IcCalled /\ IcPairs < 2 =>
        /\ result.ic = RootNull
        /\ result.p_value = PNull
        /\ result.n \in {0, 1}
        /\ ~result.significant
        /\ result.warning = "Insufficient data"

\* two series that overlap on one date where both hold a value
C22_Witness ==
    /\ IcCalled
    /\ args.n >= 2
    /\ IcPairs = 1
    /\ result.ic = RootNull
    /\ result.warning = "Insufficient data"

-----------------------------------------------------------------------------
(* TwoSampleTest: analysis/statistics.py ttest_two_groups                  *)

MaxTtestSize == 31

\* group.dropna(): the dates of the group that hold a value
Clean(group) == {t \in DOMAIN group : NotNull(group[t])}

\* The p-value of a t-statistic is 2 * sf(|t|, df) of Student's t; it is
\* kept as t^2 and the degrees of freedom.  The df of Welch's test is a
\* fraction between min(n1, n2) - 1 and n1 + n2 - 2: the two bounds are
\* kept.  A null has t_sq = NaN.
TNull == [t_sq |-> NaN, df_lo |-> 0, df_hi |-> 0]

\* p_val < SIGNIFICANCE_LEVEL.  The critical value falls as df rises; it
\* is read from the table at the lower bound of df (round_up false) or at
\* the upper one (round_up true), which bracket it.
TBelowAlpha(p, round_up) ==
    ExceedsCritical(p.t_sq, IF round_up THEN p.df_hi ELSE p.df_lo)

\* scipy.stats.ttest_ind(a, b, equal_var): Student's test on the pooled
\* variance, or Welch's test
TtestInd(m1, v1, n1, m2, v2, n2, equal_var) ==
    LET vn1   == Div(v1, Num(n1))
        vn2   == Div(v2, Num(n2))
        df    == n1 + n2 - 2
        svar  == Div(Add(Mul(Num(n1 - 1), v1), Mul(Num(n2 - 1), v2)), Num(df))
        denom == IF equal_var
                 THEN Mul(svar, Add(Div(Num(1), Num(n1)), Div(Num(1), Num(n2))))
                 ELSE Add(vn1, vn2)
        diff  == Sub(m1, m2)
        t     == RootDiv(RootOf(diff), SqrtOf(denom))
    IN  [t_stat |-> t,
         p_val  |-> IF t = RootNull THEN TNull
                    ELSE [t_sq  |-> t.sq,
                          df_lo |-> IF equal_var THEN df
                                    ELSE Min(n1, n2) - 1,
                          df_hi |-> df]]

\* n1 < 2 or n2 < 2
TooSmall(n1, n2) == n1 < 2 \/ n2 < 2

\* the mutated warning: both groups below the minimum
SmallSampleBoth(n1, n2) == n1 < MIN_SAMPLE_SIZE /\ n2 < MIN_SAMPLE_SIZE

\* n1 < MIN_SAMPLE_SIZE or n2 < MIN_SAMPLE_SIZE
SmallSample(n1, n2) == n1 < MIN_SAMPLE_SIZE \/ n2 < MIN_SAMPLE_SIZE

ttest_two_groups(group1, group2, equal_var, round_up) ==
    LET g1_clean == Clean(group1)
        g2_clean == Clean(group2)
        n1       == Cardinality(g1_clean)
        n2       == Cardinality(g2_clean)
    IN  IF TooSmall(n1, n2)
        THEN [t_statistic |-> RootNull,
              p_value     |-> TNull,
              n1          |-> n1,
              n2          |-> n2,
              mean1       |-> NaN,
              mean2       |-> NaN,
              mean_diff   |-> NaN,
              significant |-> FALSE,
              warning     |-> "Insufficient sample size"]
        ELSE LET mean1 == PairedMean(group1, g1_clean)
                 mean2 == PairedMean(group2, g2_clean)
                 test  == TtestInd(mean1, Covariance(group1, group1, g1_clean),
                                   n1,
                                   mean2, Covariance(group2, group2, g2_clean),
                                   n2, equal_var)
             IN  [t_statistic |-> test.t_stat,
                  p_value     |-> test.p_val,
                  n1          |-> n1,
                  n2          |-> n2,
                  mean1       |-> mean1,
                  mean2       |-> mean2,
                  mean_diff   |-> Sub(mean1, mean2),
                  significant |-> TBelowAlpha(test.p_val, round_up),
                  warning     |-> IF SmallSample(n1, n2)
                                  THEN "Small sample size" ELSE "None"]

\* the group sizes checked: the smallest, and those around the minimum
\* sample size
TtestSizes == 0..3 \cup (MIN_SAMPLE_SIZE - 1)..MaxTtestSize

\* a group follows a shape over the dates 1..n, with its first value
\* null or not
TtestGroups ==
    [n : TtestSizes, shape : Shapes, first_null : BOOLEAN]

TtestGroup(g) ==
    ReturnSeries(g.n, g.shape,
                 IF g.first_null /\ g.n > 0
                 THEN [date |-> 1, kind |-> "null"]
                 ELSE [date |-> 0, kind |-> "none"])

InitTtest ==
    /\ Idle
    /\ args \in [group1 : TtestGroups, group2 : TtestGroups,
                 equal_var : BOOLEAN, round_up : BOOLEAN]

TtestTwoGroups ==
    /\ call = "idle"
    /\ call' = "ttest_two_groups"
    /\ result' = ttest_two_groups(TtestGroup(args.group1),
                                  TtestGroup(args.group2),
                                  args.equal_var, args.round_up)
    /\ UNCHANGED args

NextTtest == TtestTwoGroups

SpecTtest == InitTtest /\ [][NextTtest]_vars

TtestCalled == call = "ttest_two_groups"

\* the number of values of the group that are not null
TtestCount(g) ==
    Cardinality({t \in DOMAIN TtestGroup(g) : NotNull(TtestGroup(g)[t])})

\* C23: with fewer than 2 non-null observations in either group the
\* t-statistic, p-value, means and mean_diff are null, significant is
\* false and the warning says the sample is insufficient; with at least 2
\* in both the test runs (the means are reported) and a small-sample
\* warning is attached exactly when either count is below 30.
C23_InsufficientAndSmallSampleWarnings ==
    TtestCalled =>
        LET n1 == TtestCount(args.group1)
            n2 == TtestCount(args.group2)
        IN  IF n1 < 2 \/ n2 < 2
            THEN /\ result.t_statistic = RootNull
                 /\ result.p_value = TNull
                 /\ IsNull(result.mean1) /\ IsNull(result.mean2)
                 /\ IsNull(result.mean_diff)
                 /\ ~result.significant
                 /\ result.warning = "Insufficient sample size"
            ELSE /\ NotNull(result.mean1) /\ NotNull(result.mean2)
                 /\ result.mean_diff = Sub(result.mean1, result.mean2)
                 /\ result.n1 = n1 /\ result.n2 = n2
                 /\ result.warning # "Insufficient sample size"
                 /\ result.warning = "Small sample size"
                        <=> n1 < 30 \/ n2 < 30
                 /\ result.warning = "None" <=> n1 >= 30 /\ n2 >= 30

\* a test that ran on 30 and 29 observations, with the small-sample
\* warning and a t-statistic
C23_Witness ==
    /\ TtestCalled
    /\ TtestCount(args.group1) = 30
    /\ TtestCount(args.group2) = 29
    /\ result.warning = "Small sample size"
    /\ result.t_statistic # RootNull

\* a test that ran on 30 and 30 observations, without a warning
C23_WitnessNoWarning ==
    /\ TtestCalled
    /\ TtestCount(args.group1) = 30
    /\ TtestCount(args.group2) = 30
    /\ result.warning = "None"
    /\ result.significant

\* one group with a single observation
C23_WitnessInsufficient ==
    /\ TtestCalled
    /\ TtestCount(args.group1) = 1
    /\ TtestCount(args.group2) = 30
    /\ result.warning = "Insufficient sample size"

-----------------------------------------------------------------------------
(* Anova: analysis/statistics.py anova_test                                *)

MaxAnovaGroups == 3

MaxAnovaSize == 3

\* the 0.95 quantile of the F distribution for 1..4 and 1..20 degrees of
\* freedom, in ten-thousandths: p < 0.05 exactly when F exceeds it
FCriticalTable ==
    <<  <<1614476, 185128, 101280, 77086, 66079, 59874, 55914, 53177,
        51174, 49646, 48443, 47472, 46672, 46001, 45431, 44940,
        44513, 44139, 43807, 43512>>,
        <<1995000, 190000, 95521, 69443, 57861, 51433, 47374, 44590,
        42565, 41028, 39823, 38853, 38056, 37389, 36823, 36337,
        35915, 35546, 35219, 34928>>,
        <<2157073, 191643, 92766, 65914, 54095, 47571, 43468, 40662,
        38625, 37083, 35874, 34903, 34105, 33439, 32874, 32389,
        31968, 31599, 31274, 30984>>,
        <<2245832, 192468, 91172, 63882, 51922, 45337, 41203, 38379,
        36331, 34780, 33567, 32592, 31791, 31122, 30556, 30069,
        29647, 29277, 28951, 28661>>>>

\* The p-value of an F statistic is sf(F, d1, d2); it is kept as F and
\* the degrees of freedom.  A null has f = NaN.
FNull == [f |-> NaN, d1 |-> 0, d2 |-> 0]

FBelowAlpha(p) ==
    /\ p # FNull
    /\ ExceedsTenThousandths(
           p.f, FCriticalTable[Min(p.d1, Len(FCriticalTable))]
                              [Min(p.d2, Len(FCriticalTable[1]))])

Raised(exception) == [raised |-> exception]

\* sum over the groups of F(group)
RECURSIVE SumGroups(_, _)
SumGroups(F(_), groups) ==
    IF groups = <<>> THEN Num(0)
    ELSE Add(F(Head(groups)), SumGroups(F, Tail(groups)))

GroupTotal(g) == TotalOver(g, DOMAIN g)

GroupCount(g) == Cardinality(DOMAIN g)

GroupConstant(g) == \A t, u \in DOMAIN g : g[t] = g[u]

\* scipy.stats.f_oneway(*samples) on samples without nulls.  It needs an
\* array to concatenate.  Where it validates its input (validates true) it
\* raises on fewer than two samples and returns nulls when every sample is
\* constant; where it does not, the quotients decide.
f_oneway(samples, validates) ==
    IF validates /\ Len(samples) < 2 THEN Raised("TypeError")
    ELSE IF Len(samples) = 0 THEN Raised("ValueError")
    ELSE IF validates /\ \A i \in 1..Len(samples) : GroupConstant(samples[i])
    THEN [statistic |-> NaN, pvalue |-> FNull]
    ELSE LET k     == Len(samples)
             count == SumGroups(LAMBDA g : Num(GroupCount(g)), samples)
             grand == Div(SumGroups(GroupTotal, samples), count)
             WithinSs(g)  == SsqOver(g, DOMAIN g, PairedMean(g, DOMAIN g))
             BetweenSs(g) ==
                 LET dev == Sub(PairedMean(g, DOMAIN g), grand)
                 IN  Mul(Num(GroupCount(g)), Mul(dev, dev))
             d1    == k - 1
             d2    == count[1] - k
             msb   == Div(SumGroups(BetweenSs, samples), Num(d1))
             msw   == Div(SumGroups(WithinSs, samples), Num(d2))
             f     == Div(msb, msw)
         IN  [statistic |-> f,
              pvalue    |-> IF IsNull(f) THEN FNull
                            ELSE [f |-> f, d1 |-> d1, d2 |-> d2]]

\* g.dropna(): the group without its nulls
DropNa(g) == [t \in Clean(g) |-> g[t]]

\* any(n < 2 for n in group_sizes)
AnyGroupTooSmall(group_sizes) ==
    \E i \in 1..Len(group_sizes) : group_sizes[i] < 2

anova_test(groups, validates) ==
    LET clean_groups == [i \in 1..Len(groups) |-> DropNa(groups[i])]
        group_sizes  == [i \in 1..Len(groups) |-> GroupCount(clean_groups[i])]
    IN  IF AnyGroupTooSmall(group_sizes)
        THEN [f_stat      |-> NaN,
              p_value     |-> FNull,
              group_sizes |-> group_sizes,
              group_means |-> [i \in 1..Len(groups) |-> NaN],
              significant |-> FALSE,
              warning     |-> "Insufficient sample size in one or more groups"]
        ELSE LET test == f_oneway(clean_groups, validates)
             IN  IF "raised" \in DOMAIN test THEN test
                 ELSE [f_stat      |-> test.statistic,
                       p_value     |-> test.pvalue,
                       group_sizes |-> group_sizes,
                       group_means |->
                           [i \in 1..Len(groups) |->
                               PairedMean(clean_groups[i],
                                          DOMAIN clean_groups[i])],
                       significant |-> FBelowAlpha(test.pvalue),
                       warning     |-> "None"]

\* a group follows a shape over the dates 1..n; the groups of a list have
\* their first value null, or none has
AnovaGroups == [n : 0..MaxAnovaSize, shape : {"flat", "ramp"}]

AnovaGroup(g, first_null) ==
    ReturnSeries(g.n, g.shape,
                 IF first_null /\ g.n > 0
                 THEN [date |-> 1, kind |-> "null"]
                 ELSE [date |-> 0, kind |-> "none"])

InitAnova ==
    /\ Idle
    /\ \E k \in 0..MaxAnovaGroups :
          args \in [groups : [1..k -> AnovaGroups], first_null : BOOLEAN,
                    validates : BOOLEAN]

AnovaInput ==
    [i \in 1..Len(args.groups) |-> AnovaGroup(args.groups[i], args.first_null)]

AnovaTest ==
    /\ call = "idle"
    /\ call' = "anova_test"
    /\ result' = anova_test(AnovaInput, args.validates)
    /\ UNCHANGED args

NextAnova == AnovaTest

SpecAnova == InitAnova /\ [][NextAnova]_vars

AnovaCalled == call = "anova_test"

\* the number of values of group i that are not null
AnovaCount(i) == Cardinality(Clean(AnovaInput[i]))

AnovaAnySmall == \E i \in 1..Len(args.groups) : AnovaCount(i) < 2

AnovaStructured ==
    {"f_stat", "p_value", "group_sizes", "group_means", "significant",
     "warning"} \subseteq DOMAIN result

\* C24: anova_test returns a structured result for every list of groups
\* without raising: if any group has fewer than 2 non-null observations the
\* F statistic, the p-value and the group means are null, significant is
\* false and a warning is set; otherwise the result holds the F statistic,
\* the p-value and the means and sizes of the groups.
C24_StructuredResultForEveryList ==
    AnovaCalled =>
        /\ AnovaStructured
        /\ IF AnovaAnySmall
           THEN /\ IsNull(result.f_stat)
                /\ result.p_value = FNull
                /\ \A i \in 1..Len(args.groups) : IsNull(result.group_means[i])
                /\ ~result.significant
                /\ result.warning # "None"
           ELSE /\ result.warning = "None"
                /\ \A i \in 1..Len(args.groups) :
                      /\ result.group_sizes[i] = AnovaCount(i)
                      /\ NotNull(result.group_means[i])

\* the same for the lists of at least two groups
C24_StructuredResultForTwoGroupsOrMore ==
    AnovaCalled /\ Len(args.groups) >= 2 =>
        /\ AnovaStructured
        /\ IF AnovaAnySmall
           THEN /\ IsNull(result.f_stat)
                /\ result.p_value = FNull
                /\ \A i \in 1..Len(args.groups) : IsNull(result.group_means[i])
                /\ ~result.significant
                /\ result.warning # "None"
           ELSE /\ result.warning = "None"
                /\ \A i \in 1..Len(args.groups) :
                      /\ result.group_sizes[i] = AnovaCount(i)
                      /\ NotNull(result.group_means[i])

\* three groups of at least two observations with a finite F statistic
C24_WitnessRan ==
    /\ AnovaCalled
    /\ Len(args.groups) = 3
    /\ ~AnovaAnySmall
    /\ IsFinite(result.f_stat)
    /\ result.f_stat # Num(0)

\* the call raised
C24_WitnessRaised ==
    /\ AnovaCalled
    /\ "raised" \in DOMAIN result

-----------------------------------------------------------------------------
(* LaggedCorrelation: analysis/statistics.py granger_causality_test        *)

MaxGrangerDates == 23

MaxLagBound == 2

\* the mutated guard: len(df) < 20
ScanTooShortTwenty(n, max_lag) == n < 20

\* len(df) < max_lag + 20
ScanTooShort(n, max_lag) == n < max_lag + 20

\* the mutated skip: len(df_lag) < 21
LagTooShortTwentyOne(n) == n < 21

\* len(df_lag) < 20
LagTooShort(n) == n < 20

\* one lag of the scan on the paired rows xs, ys: x is shifted by lag rows
\* of the paired frame, rows with a null dropped, and the rest correlated;
\* no row if fewer than 20 are left
LagRows(xs, ys, lag) ==
    LET x_lag  == Shift(xs, lag)
        df_lag == {i \in 1..Len(xs) :
                      NotNull(xs[i]) /\ NotNull(ys[i]) /\ NotNull(x_lag[i])}
    IN  IF LagTooShort(Cardinality(df_lag)) THEN <<>>
        ELSE LET c == PearsonOver(x_lag, ys, df_lag)
             IN  <<[lag         |-> lag,
                    correlation |-> c.corr,
                    p_value     |-> c.p_val,
                    significant |-> PBelowAlpha(c.p_val)]>>

\* for lag in range(from, max_lag + 1): results.append(...)
RECURSIVE LagScan(_, _, _, _)
LagScan(xs, ys, from, max_lag) ==
    IF from > max_lag THEN <<>>
    ELSE LagRows(xs, ys, from) \o LagScan(xs, ys, from + 1, max_lag)

granger_causality_test(x, y, max_lag) ==
    LET df == PairedDates(x, y)
    IN  IF ScanTooShort(Cardinality(df), max_lag)
        THEN <<[lag         |-> 1,
                correlation |-> RootNull,
                p_value     |-> PNull,
                warning     |-> "Insufficient data for Granger test"]>>
        ELSE LagScan(PairedValues(x, df), PairedValues(y, df), 1, max_lag)

\* the lengths checked: the shortest, and those around max_lag + 20
GrangerLengths == 0..2 \cup 19..MaxGrangerDates

\* x and y are two columns of one frame over the dates 1..n, each with at
\* most one null, on the first, the second or the last date
GrangerHoles(n) == {h \in IcHoles(n) : h.kind # "absent"}

InitGranger ==
    /\ Idle
    /\ \E n \in GrangerLengths :
          args \in [n : {n}, x_shape : Shapes, y_shape : Shapes,
                    x_hole : GrangerHoles(n), y_hole : GrangerHoles(n),
                    max_lag : 0..MaxLagBound]

GrangerX == ReturnSeries(args.n, args.x_shape, args.x_hole)

GrangerY == ReturnSeries(args.n, args.y_shape, args.y_hole)

GrangerCausalityTest ==
    /\ call = "idle"
    /\ call' = "granger_causality_test"
    /\ result' = granger_causality_test(GrangerX, GrangerY, args.max_lag)
    /\ UNCHANGED args

NextGranger == GrangerCausalityTest

SpecGranger == InitGranger /\ [][NextGranger]_vars

GrangerCalled == call = "granger_causality_test"

\* the number of rows where both x and y hold a value
GrangerPairs == Cardinality(PairedDates(GrangerX, GrangerY))

GrangerPlaceholder ==
    /\ Len(result) = 1
    /\ result[1].lag = 1
    /\ result[1].correlation = RootNull
    /\ result[1].p_value = PNull
    /\ "warning" \in DOMAIN result[1]
    /\ result[1].warning # "None"

\* C25: the scan short-circuits exactly when the number of rows where
\* both x and y are non-null is below max_lag + 20; it then returns a
\* single placeholder row (lag 1, null correlation, null p-value, a
\* warning) and no per-lag result.
C25_ShortCircuitBelowMaxLagPlusTwenty ==
    GrangerCalled =>
        IF GrangerPairs < args.max_lag + 20
        THEN GrangerPlaceholder
        ELSE \A i \in 1..Len(result) : "warning" \notin DOMAIN result[i]

\* 20 paired rows and max_lag = 1: one short of the threshold
C25_Witness ==
    /\ GrangerCalled
    /\ GrangerPairs = 20
    /\ args.max_lag = 1
    /\ GrangerPlaceholder

\* 21 paired rows and max_lag = 1: the scan runs
C25_WitnessRuns ==
    /\ GrangerCalled
    /\ GrangerPairs = 21
    /\ args.max_lag = 1
    /\ Len(result) = 1
    /\ "significant" \in DOMAIN result[1]

\* the sessions t where y at t and x at the session lag positions earlier
\* are both non-null
SessionPairs(lag) ==
    {t \in 1..args.n :
        /\ t - lag >= 1
        /\ NotNull(GrangerX[t - lag])
        /\ NotNull(GrangerY[t])}

\* C26: for each lag L in 1..max_lag the scan correlates y at session t
\* with x at the session L positions earlier in the original series, over
\* the sessions where both are non-null.
C26_LagCountsSessionsOfOriginalSeries ==
    GrangerCalled /\ GrangerPairs >= args.max_lag + 20 =>
        \A i \in 1..Len(result) :
            result[i].correlation =
                PearsonOver(Shift(GrangerX, result[i].lag), GrangerY,
                            SessionPairs(result[i].lag)).corr

\* the same for series without a null, where the paired rows are the
\* sessions
C26_LagCountsSessionsWithoutNulls ==
    /\ GrangerCalled /\ GrangerPairs >= args.max_lag + 20
    /\ args.x_hole.kind = "none" /\ args.y_hole.kind = "none"
    => \A i \in 1..Len(result) :
            result[i].correlation =
                PearsonOver(Shift(GrangerX, result[i].lag), GrangerY,
                            SessionPairs(result[i].lag)).corr

\* a scan that ran on series with a null in x
C26_WitnessNull ==
    /\ GrangerCalled
    /\ GrangerPairs >= args.max_lag + 20
    /\ args.max_lag >= 1
    /\ args.x_hole.kind = "null"
    /\ Len(result) >= 1
    /\ result[1].correlation # RootNull

\* C30: whenever the scan does not short-circuit and max_lag >= 1, the
\* result has exactly one row for every lag 1..max_lag, in ascending
\* order: no lag is skipped for fewer than 20 aligned observations.
C30_OneRowPerLag ==
    GrangerCalled /\ GrangerPairs >= args.max_lag + 20 /\ args.max_lag >= 1 =>
        /\ Len(result) = args.max_lag
        /\ \A i \in 1..Len(result) : result[i].lag = i

\* exactly max_lag + 20 paired rows: the last lag is left with 20 rows
C30_Witness ==
    /\ GrangerCalled
    /\ args.max_lag = 2
    /\ GrangerPairs = 22
    /\ Len(result) = 2
    /\ result[2].lag = 2

-----------------------------------------------------------------------------
(* Signals on a panel and on its first rows: analysis/normalization.py     *)
(* and analysis/composite.py build_composite_score                         *)

MaxLookLen == 3

MaxLookWindow == 2

\* the panel of the foreign and self net-buy values x and y: the close is
\* flat, PE follows x and PB follows y where they hold a value
LookPanel(x, y) ==
    [date                |-> [i \in 1..Len(x) |-> i],
     foreign_net_buy_val |-> x,
     close               |-> [i \in 1..Len(x) |-> Num(2)],
     self_net_buy_val    |-> y,
     pe                  |-> x,
     pb                  |-> y]

\* the rows 1..t of a series
FirstRows(s, t) == SubSeq(s, 1, t)

InitSignals ==
    /\ Idle
    /\ \E n \in 1..MaxLookLen :
          args \in [x : [1..n -> {NaN, Num(1), Num(2)}],
                    y : [1..n -> {Num(1), Num(2)}],
                    window : {1, MaxLookWindow},
                    propagate : BOOLEAN]

SignalZscore ==
    /\ call = "idle"
    /\ call' = "calculate_zscore"
    /\ result' = calculate_zscore(args.x, args.window)
    /\ UNCHANGED args

SignalPercentile ==
    /\ call = "idle"
    /\ call' = "calculate_percentile"
    /\ result' = calculate_percentile(args.x, args.window, args.propagate)
    /\ UNCHANGED args

SignalAdv ==
    /\ call = "idle"
    /\ call' = "normalize_by_adv"
    /\ result' = normalize_by_adv(args.x, args.y, args.window)
    /\ UNCHANGED args

\* the self-trading signal: the net value is buy - sell (loader.py)
SignalGtgd ==
    /\ call = "idle"
    /\ call' = "normalize_by_gtgd"
    /\ result' = normalize_by_gtgd(self_net_buy_val(args.x, args.y),
                                   args.x, args.y)
    /\ UNCHANGED args

SignalComposite ==
    /\ call = "idle"
    /\ call' = "build_composite_score"
    /\ result' = build_composite_score(LookPanel(args.x, args.y), TRUE,
                                       args.propagate)
    /\ UNCHANGED args

NextSignals ==
    \/ SignalZscore
    \/ SignalPercentile
    \/ SignalAdv
    \/ SignalGtgd
    \/ SignalComposite

SpecSignals == InitSignals /\ [][NextSignals]_vars

\* the value the called function gives at row t from the rows 1..t alone
FromFirstRows(t) ==
    LET x == FirstRows(args.x, t)
        y == FirstRows(args.y, t)
    IN  CASE call = "calculate_zscore" ->
                 calculate_zscore(x, args.window)[t]
          [] call = "calculate_percentile" ->
                 calculate_percentile(x, args.window, args.propagate)[t]
          [] call = "normalize_by_adv" ->
                 normalize_by_adv(x, y, args.window)[t]
          [] call = "normalize_by_gtgd" ->
                 normalize_by_gtgd(self_net_buy_val(x, y), x, y)[t]
          [] call = "build_composite_score" ->
                 LET df == build_composite_score(LookPanel(x, y), TRUE,
                                                 args.propagate)
                 IN  [c \in DOMAIN df |-> df[c][t]]

\* the value of the result at row t: of the series, or of every column
AtRow(t) ==
    IF call = "build_composite_score"
    THEN [c \in DOMAIN result |-> result[c][t]]
    ELSE result[t]

\* C27: the rolling z-score, the rolling percentile, the ADV-relative and
\* GTGD-relative signals and every column of the composite-score frame at
\* row t are the values computed from the rows 1..t alone, so two panels
\* that agree on all rows up to t have the same values at row t whatever
\* their later rows.
C27_RowDependsOnEarlierRowsOnly ==
    call # "idle" =>
        \A t \in 1..Len(args.x) : AtRow(t) = FromFirstRows(t)

\* a z-score on the second of three rows, with a third row that differs
C27_Witness ==
    /\ call = "calculate_zscore"
    /\ Len(args.x) = 3
    /\ args.window = 2
    /\ ~ZNull(result[2])
    /\ args.x[3] # args.x[2]
    /\ NotNull(args.x[3])

\* a composite score on the second of three rows with a z-score term
C27_WitnessComposite ==
    /\ call = "build_composite_score"
    /\ Len(args.x) = 3
    /\ result.composite_score[2].zf # ZZero
    /\ args.x[3] # args.x[2]

-----------------------------------------------------------------------------
(* Lead/lag preparation: analysis/lead_lag.py                              *)

MaxLeadLen == 3

MaxLeadHorizon == 2

\* f'fwd_return_{h}d' and f'fwd_excess_return_{h}d'
FwdReturnCol(h) == "fwd_return_" \o ToString(h) \o "d"

FwdExcessCol(h) == "fwd_excess_return_" \o ToString(h) \o "d"

\* calculate_excess_return: stock_return - market_return
calculate_excess_return(stock_return, market_return) ==
    SeriesSub(stock_return, market_return)

\* pd.concat([df, fwd_returns], axis=1)
ConcatForward(df, prices, horizons, pad) ==
    LET fwd == calculate_forward_returns(prices, horizons, pad)
    IN  [k \in (DOMAIN df) \cup {FwdReturnCol(h) : h \in horizons} |->
            IF \E h \in horizons : k = FwdReturnCol(h)
            THEN fwd[CHOOSE h \in horizons : k = FwdReturnCol(h)]
            ELSE df[k]]

\* one turn of the loop over the horizons (lines 51-61)
ForwardExcess(df, h, pad) ==
    IF FwdReturnCol(h) \in DOMAIN df
    THEN IF "vnindex_close" \in DOMAIN df
         THEN SetColumn(df, FwdExcessCol(h),
                        SeriesSub(df[FwdReturnCol(h)],
                                  Shift(PctChange(df["vnindex_close"], h, pad),
                                        -h)))
         ELSE SetColumn(df, FwdExcessCol(h), df[FwdReturnCol(h)])
    ELSE df

RECURSIVE ForwardExcessAll(_, _, _)
ForwardExcessAll(df, horizons, pad) ==
    IF horizons = {} THEN df
    ELSE LET h == CHOOSE k \in horizons : \A j \in horizons : k <= j
         IN  ForwardExcessAll(ForwardExcess(df, h, pad), horizons \ {h}, pad)

prepare_lead_lag_data(df0, horizons, pad) ==
    LET df == IF /\ "excess_return" \notin DOMAIN df0
                 /\ "return" \in DOMAIN df0
                 /\ "market_return" \in DOMAIN df0
              THEN SetColumn(df0, "excess_return",
                             calculate_excess_return(df0["return"],
                                                     df0["market_return"]))
              ELSE df0
    IN  IF "close" \in DOMAIN df
        THEN ForwardExcessAll(ConcatForward(df, df["close"], horizons, pad),
                              horizons, pad)
        ELSE df

\* the QUINTILE column is added when the signal column is there
create_quintiles_by_foreign_trading(df, signal_col) ==
    IF signal_col \in DOMAIN df
    THEN SetColumn(df, "quintile", create_quintiles(df[signal_col]).labels)
    ELSE df

\* lines 100-108: the return column is chosen and the two required columns
\* are looked up.  The statistics of lines 110-134 are taken by quintile over
\* that column; the result holds the column and the labels they are taken
\* from.
analyze_quintile_returns(df, horizon, use_excess_return) ==
    LET return_col == IF use_excess_return THEN FwdExcessCol(horizon)
                      ELSE FwdReturnCol(horizon)
    IN  IF "quintile" \notin DOMAIN df \/ return_col \notin DOMAIN df
        THEN [error |-> "Missing required columns"]
        ELSE [horizon     |-> horizon,
              return_type |-> IF use_excess_return THEN "excess" ELSE "total",
              returns     |-> df[return_col],
              quintile    |-> df["quintile"]]

\* lines 153-163: prepare, bin, analyse every horizon on excess returns
lead_lag_analysis_full(df0, horizons, signal_col, pad) ==
    LET df == create_quintiles_by_foreign_trading(
                  prepare_lead_lag_data(df0, horizons, pad), signal_col)
    IN  [h \in horizons |-> analyze_quintile_returns(df, h, TRUE)]

LeadLagColumns ==
    {"close", "vnindex_close", "foreign_net_buy_val", "return",
     "market_return"}

\* the panel of a close and a benchmark close with the columns given: the
\* flows rise by one a day, the returns are given ones
LeadLagPanel(columns, close, vnindex_close) ==
    [c \in columns |->
        CASE c = "close" -> close
          [] c = "vnindex_close" -> vnindex_close
          [] c = "foreign_net_buy_val" -> [i \in 1..Len(close) |-> Num(i)]
          [] c = "return" -> [i \in 1..Len(close) |-> Num(2)]
          [] c = "market_return" -> [i \in 1..Len(close) |-> Num(1)]]

InitLeadLag ==
    /\ Idle
    /\ \E n \in 1..MaxLeadLen :
          args \in [columns : {cs \in SUBSET LeadLagColumns :
                                  ("return" \in cs) = ("market_return" \in cs)},
                    close : [1..n -> {NaN, Num(1), Num(2)}],
                    vnindex_close : [1..n -> {Num(1), Num(2)}],
                    pad : BOOLEAN]

LeadLagInput == LeadLagPanel(args.columns, args.close, args.vnindex_close)

PrepareLeadLagData ==
    /\ call = "idle"
    /\ call' = "prepare_lead_lag_data"
    /\ result' = prepare_lead_lag_data(LeadLagInput, 1..MaxLeadHorizon,
                                       args.pad)
    /\ UNCHANGED args

LeadLagAnalysisFull ==
    /\ call = "idle"
    /\ call' = "lead_lag_analysis_full"
    /\ result' = lead_lag_analysis_full(LeadLagInput, 1..MaxLeadHorizon,
                                        "foreign_net_buy_val", args.pad)
    /\ UNCHANGED args

NextLeadLag ==
    \/ PrepareLeadLagData
    \/ LeadLagAnalysisFull

SpecLeadLag == InitLeadLag /\ [][NextLeadLag]_vars

NoBenchmark == "vnindex_close" \notin args.columns

\* C28: on a panel without the benchmark close column prepare_lead_lag_data
\* produces no forward excess return value for any horizon (no such column,
\* or one without a value), and the analysis of every horizon reports the
\* missing column.
C28_NoExcessReturnWithoutBenchmark ==
    NoBenchmark =>
        \A h \in 1..MaxLeadHorizon :
            /\ call = "prepare_lead_lag_data" =>
                   \/ FwdExcessCol(h) \notin DOMAIN result
                   \/ \A i \in 1..Len(args.close) :
                          IsNull(result[FwdExcessCol(h)][i])
            /\ call = "lead_lag_analysis_full" =>
                   "error" \in DOMAIN result[h]

\* what the code does: without the benchmark the forward excess return is
\* the forward return of the close itself, and the analysis reports a
\* missing column only when the close or the signal is missing too
C28_ForwardReturnStandsInForExcess ==
    NoBenchmark =>
        \A h \in 1..MaxLeadHorizon :
            /\ call = "prepare_lead_lag_data" =>
                   IF "close" \in args.columns
                   THEN result[FwdExcessCol(h)] = result[FwdReturnCol(h)]
                   ELSE FwdExcessCol(h) \notin DOMAIN result
            /\ call = "lead_lag_analysis_full" =>
                   ("error" \in DOMAIN result[h]) =
                       ~({"close", "foreign_net_buy_val"} \subseteq args.columns)

\* with the benchmark the excess return is the forward return of the close
\* less the forward return of the benchmark
C28_ExcessAgainstBenchmark ==
    (call = "prepare_lead_lag_data"
        /\ {"close", "vnindex_close"} \subseteq args.columns) =>
        \A h \in 1..MaxLeadHorizon :
            result[FwdExcessCol(h)] =
                SeriesSub(ForwardReturn(args.close, h, args.pad),
                          ForwardReturn(args.vnindex_close, h, args.pad))

\* a panel with a close and no benchmark whose analysis reports no error
C28_WitnessSilent ==
    /\ call = "lead_lag_analysis_full"
    /\ NoBenchmark
    /\ "error" \notin DOMAIN result[1]
    /\ NotNull(result[1].returns[1])

-----------------------------------------------------------------------------
(* Conflict states: analysis/conflicts.py create_conflict_states           *)

MaxConflictRows == 2

BOTH_BUY == "Both Buy"

FOREIGN_BUY_SELF_SELL == "Foreign Buy, Self Sell"

FOREIGN_SELL_SELF_BUY == "Foreign Sell, Self Buy"

BOTH_SELL == "Both Sell"

\* the state of one row; "None" stands for Python's None
classify_state(foreign, self_val) ==
    IF IsNull(foreign) \/ IsNull(self_val) THEN "None"
    ELSE IF Less(Num(0), foreign) /\ Less(Num(0), self_val)
    THEN BOTH_BUY
    ELSE IF Less(Num(0), foreign) /\ Less(self_val, Num(0))
    THEN FOREIGN_BUY_SELF_SELL
    ELSE IF Less(foreign, Num(0)) /\ Less(Num(0), self_val)
    THEN FOREIGN_SELL_SELF_BUY
    ELSE BOTH_SELL

\* the frame is returned as it is when one of the two columns is missing
create_conflict_states(df) ==
    IF "foreign_net_buy_val" \notin DOMAIN df
          \/ "self_net_buy_val" \notin DOMAIN df
    THEN df
    ELSE SetColumn(df, "conflict_state",
                   [i \in 1..Len(df["foreign_net_buy_val"]) |->
                       classify_state(df["foreign_net_buy_val"][i],
                                      df["self_net_buy_val"][i])])

ConflictValues == {NaN, Num(-1), Num(0), Num(1)}

InitConflict ==
    /\ Idle
    /\ \E n \in 1..MaxConflictRows :
          args \in [columns : SUBSET {"foreign_net_buy_val",
                                      "self_net_buy_val"},
                    foreign : [1..n -> ConflictValues],
                    self_val : [1..n -> ConflictValues]]

\* the panel with the columns given, and the dates
ConflictInput ==
    [c \in args.columns \cup {"date"} |->
        CASE c = "foreign_net_buy_val" -> args.foreign
          [] c = "self_net_buy_val" -> args.self_val
          [] c = "date" -> [i \in 1..Len(args.foreign) |-> i]]

CreateConflictStates ==
    /\ call = "idle"
    /\ call' = "create_conflict_states"
    /\ result' = create_conflict_states(ConflictInput)
    /\ UNCHANGED args

NextConflict == CreateConflictStates

SpecConflict == InitConflict /\ [][NextConflict]_vars

\* the call classified the rows: both columns were there
ConflictClassified ==
    /\ call = "create_conflict_states"
    /\ Cardinality(args.columns) = 2

\* the state that matches the signs of two values, "None" if no state does
StateOfSigns(foreign, self_val) ==
    CASE Less(Num(0), foreign) /\ Less(Num(0), self_val) -> BOTH_BUY
      [] Less(Num(0), foreign) /\ Less(self_val, Num(0)) ->
             FOREIGN_BUY_SELF_SELL
      [] Less(foreign, Num(0)) /\ Less(Num(0), self_val) ->
             FOREIGN_SELL_SELF_BUY
      [] Less(foreign, Num(0)) /\ Less(self_val, Num(0)) -> BOTH_SELL
      [] OTHER -> "None"

\* C29: a row is labelled 'Both Sell' only when both the foreign and the
\* self net-buy value are negative; a row with both values non-null has one
\* of the four states and that state matches the signs of the two values;
\* a row with a null value has no state.
C29_StateMatchesSigns ==
    ConflictClassified =>
        \A i \in 1..Len(args.foreign) :
            LET state == result["conflict_state"][i]
            IN  /\ state = BOTH_SELL =>
                       Less(args.foreign[i], Num(0))
                           /\ Less(args.self_val[i], Num(0))
                /\ (NotNull(args.foreign[i]) /\ NotNull(args.self_val[i])) =>
                       /\ state \in {BOTH_BUY, FOREIGN_BUY_SELF_SELL,
                                     FOREIGN_SELL_SELF_BUY, BOTH_SELL}
                       /\ state = StateOfSigns(args.foreign[i],
                                               args.self_val[i])
                /\ (IsNull(args.foreign[i]) \/ IsNull(args.self_val[i])) =>
                       state = "None"

\* what the code does: a null gives no state, two values that are not zero
\* give the state of their signs, and a zero on either side gives 'Both
\* Sell' unless the other value is null
C29_ZeroIsBothSell ==
    ConflictClassified =>
        \A i \in 1..Len(args.foreign) :
            LET state == result["conflict_state"][i]
                f     == args.foreign[i]
                s     == args.self_val[i]
            IN  IF IsNull(f) \/ IsNull(s) THEN state = "None"
                ELSE IF f = Num(0) \/ s = Num(0) THEN state = BOTH_SELL
                ELSE state = StateOfSigns(f, s)

\* without one of the two columns the frame comes back without a state
C29_NoStateWithoutBothColumns ==
    (call = "create_conflict_states" /\ Cardinality(args.columns) < 2) =>
        result = ConflictInput

\* a row with a foreign value of zero and a positive self value that is
\* labelled 'Both Sell'
C29_WitnessZero ==
    /\ ConflictClassified
    /\ args.foreign[1] = Num(0)
    /\ args.self_val[1] = Num(1)
    /\ result["conflict_state"][1] = BOTH_SELL

=============================================================================
